---- MODULE Spec2Model ----
(***************************************************************************)
(* Model of hk-npm.                                                        *)
(*                                                                         *)
(* Spec, FairSpec: the grounded-answer pipeline (shared/src/answer.ts):    *)
(* createAnswerService / generateAnswer, findRelevantCode and              *)
(* fetchSymbolContext, against an external search index and a list of      *)
(* generative models whose calls may fail. There a JavaScript string is a  *)
(* sequence of text pieces (its value is their concatenation).             *)
(*                                                                         *)
(* SymbolSpec: filterRelevantSymbols and calculateRelevanceScore of the    *)
(* ingestion's code parser, applied to lists of parsed symbols.            *)
(*                                                                         *)
(* IngestSpec: one run of indexPackage: the package metadata, the three    *)
(* source-fetch strategies of fetchSourceCode, and the document handed to  *)
(* the index. In these two a string is written as text.                    *)
(*                                                                         *)
(* BatchSpec: one call of indexPackages by the ingest script, the worker's *)
(* handleReindexJob or the legacy server's handleIndexRequest, with        *)
(* fetchPackage and the index that client.index writes to.                 *)
(*                                                                         *)
(* JobSpec: the reindex queue, its routes /mcp/tools.reindex and           *)
(* /mcp/jobs.status, and the worker.                                       *)
(*                                                                         *)
(* TarballSpec: runs of fetchFromNpmTarball side by side in one process,   *)
(* with the clock and the files under the temporary directory.             *)
(*                                                                         *)
(* RouteSpec: requests handled side by side by the route /mcp/tools.answer *)
(* on its one answer service.                                              *)
(*                                                                         *)
(* An optional value is a sequence of length <= 1.                         *)
(***************************************************************************)
EXTENDS Integers, Sequences, FiniteSets, TLC

VARIABLES
    options,      \* AnswerServiceOptions given to createAnswerService
    models,       \* closure variable `models` of createAnswerService
    entry,        \* which exported function has been invoked
    payload,      \* its argument
    pc,           \* the await the invocation is suspended at
    searchQuery,  \* local `searchQuery` / parameter `query`
    maxSnippets,  \* local `maxSnippets`
    hit,          \* local `hit` of findRelevantCode (level-1 hit), if any
    context,      \* local `context` of generateAnswer, once retrieved
    modelIdx,     \* position of `for (const model of models)`
    attempt,      \* loop variable `attempt`
    lastError,    \* local `lastError`
    calls,        \* every call made on a collaborator, with its outcome
    result,       \* how the returned promise settled
    \* code-parser.ts: the symbol filter and the relevance score
    parsed,       \* a ParsedSymbol[] handed to the functions
    filtered,     \* filterRelevantSymbols(parsed), once computed
    refiltered,   \* filterRelevantSymbols(filtered), once computed
    scores,       \* calculateRelevanceScore of each element of parsed
    \* indexer.ts and source-fetcher.ts: one run of indexPackage
    ipc,          \* the step the run is suspended at
    pkgArg,       \* parameter `packageName`
    pkgJson,      \* local `pkgJson`, once fetched
    repoUrl,      \* local `repoUrl`
    strategyLog,  \* start and end of every fetch strategy, in order
    tempDirExists,\* whether the directory `tempDir` exists on disk
    tarball,      \* what fetchFromNpmTarball did with `tempDir`
    sourceCode,   \* local `sourceCode`, once fetchSourceCode returned
    allParsed,    \* local `allSymbols` of indexPackage: what parseSourceFiles returned
    submitted,    \* every document handed to client.index
    indexResult,  \* how the promise of indexPackage settled
    \* indexer.ts indexPackages and its callers: the ingest script, the worker's
    \* handleReindexJob and the legacy server's handleIndexRequest
    bpc,          \* the step the batch is suspended at
    caller,       \* who called indexPackages, and with what request
    packages,     \* parameter `packages`
    cursor,       \* position of `for (const pkg of packages)`
    successful,   \* local `successful`
    failed,       \* local `failed`
    current,      \* locals of the indexPackage run in progress
    processed,    \* start and end of every indexPackage run of this batch
    store,        \* the documents of the index npm-packages
    writes,       \* by name@version, the run that last indexed a document with success
    reportedBack, \* what each caller of indexPackages reported: reply or job result
    \* api/src/services/jobs.ts and the routes /mcp/tools.reindex, /mcp/jobs.status
    jobs,         \* the jobs of the BullMQ queue, by job id
    reported,     \* the reply the two routes last sent to a client, if any
    \* source-fetcher.ts: fetchFromNpmTarball runs in one process, side by side
    clock,        \* Date.now()
    fetches,      \* the locals of each run of fetchFromNpmTarball, and what it returned
    disk,         \* the files under os.tmpdir()
    \* api/src/mcp/tools.ts: requests on the route /mcp/tools.answer
    requests,     \* the locals of each request being handled
    httpReplies   \* the reply sent for each request

answerVars == <<options, models, entry, payload, pc, searchQuery, maxSnippets,
                hit, context, modelIdx, attempt, lastError, calls, result>>

symbolVars == <<parsed, filtered, refiltered, scores>>

ingestVars == <<ipc, pkgArg, pkgJson, repoUrl, strategyLog, tempDirExists,
                tarball, sourceCode, allParsed, submitted, indexResult>>

batchVars == <<bpc, caller, packages, cursor, successful, failed, current, processed,
               store, writes, reportedBack>>

jobVars == <<jobs, reported>>

tarballVars == <<clock, fetches, disk>>

routeVars == <<requests, httpReplies>>

vars == <<answerVars, symbolVars, ingestVars, batchVars, jobVars, tarballVars, routeVars>>

\* what the actions of one part leave alone
besidesAnswer == <<symbolVars, ingestVars, batchVars, jobVars, tarballVars, routeVars>>
besidesSymbol == <<answerVars, ingestVars, batchVars, jobVars, tarballVars, routeVars>>
besidesIngest == <<answerVars, symbolVars, batchVars, jobVars, tarballVars, routeVars>>
besidesBatch == <<answerVars, symbolVars, ingestVars, jobVars, tarballVars, routeVars>>
besidesJobs == <<answerVars, symbolVars, ingestVars, batchVars, tarballVars, routeVars>>
besidesTarball == <<answerVars, symbolVars, ingestVars, batchVars, jobVars, routeVars>>
besidesRoute == <<answerVars, symbolVars, ingestVars, batchVars, jobVars, tarballVars>>

-----------------------------------------------------------------------------
(* Bounds of the model *)

MaxRetriesBound == 2
MaxSymbols == 2

(* Program constants *)

DefaultMaxRetries == 1
DefaultMaxSnippets == 3
SnippetLen == 160

-----------------------------------------------------------------------------
(* Optional values and strings *)

None == <<>>
Some(v) == <<v>>
IsSome(o) == Len(o) > 0
Get(o) == o[1]
OrElse(o, d) == IF IsSome(o) THEN o[1] ELSE d

Min(a, b) == IF a < b THEN a ELSE b
Max(a, b) == IF a > b THEN a ELSE b

Whitespace == {" ", "\t", "\n"}

RECURSIVE TrimStart(_)
TrimStart(s) ==
    IF s # <<>> /\ Head(s) \in Whitespace THEN TrimStart(Tail(s)) ELSE s

RECURSIVE TrimEnd(_)
TrimEnd(s) ==
    IF s # <<>> /\ s[Len(s)] \in Whitespace
    THEN TrimEnd(SubSeq(s, 1, Len(s) - 1))
    ELSE s

\* String.prototype.trim
Trim(s) == TrimEnd(TrimStart(s))

\* String.prototype.slice(0, n)
Slice0(s, n) == SubSeq(s, 1, Min(Len(s), n))

\* String.prototype.includes
Includes(s, w) == \E i \in 1..(Len(s) - Len(w) + 1) : SubSeq(s, i, i + Len(w) - 1) = w

LowerOf(c) ==
    CASE c = "A" -> "a" [] c = "B" -> "b" [] c = "D" -> "d" [] c = "E" -> "e"
      [] c = "I" -> "i" [] c = "L" -> "l" [] c = "N" -> "n" [] c = "O" -> "o"
      [] c = "R" -> "r" [] c = "S" -> "s" [] c = "U" -> "u" [] c = "V" -> "v"
      [] c = "C" -> "c" [] c = "F" -> "f" [] c = "H" -> "h" [] c = "P" -> "p"
      [] c = "T" -> "t"
      [] OTHER -> c

\* String.prototype.toLowerCase
ToLowerCase(s) == [i \in 1..Len(s) |-> LowerOf(s[i])]

-----------------------------------------------------------------------------
(* Values the collaborators hold or produce *)

Text(n) == [i \in 1..n |-> "x"]

\* Values a generateContent call (or reading its response text) may throw
ErrUnavailable == [type |-> "Error",
                   message |-> <<"S","e","r","v","i","c","e"," ","U","N","A","V","A","I","L","A","B","L","E">>]
Err503 == [type |-> "Error", message |-> <<"[", "5", "0", "3", "]">>]
ErrQuota == [type |-> "Error", message |-> <<"quota exceeded">>]
StrOverloaded == [type |-> "string", message |-> <<"o","v","e","r","l","o","a","d","e","d">>]
ObjThrown == [type |-> "object", message |-> <<>>]

ModelThrows == {ErrUnavailable, Err503, ErrQuota, StrOverloaded, ObjThrown}

\* Values a call on the index client may throw
ErrConnection == [type |-> "Error", message |-> <<"connect ECONNREFUSED">>]
IndexThrows == {ErrConnection}

\* Text a successful generation returns
ModelTexts == {<<"\n", "const s = z.string()", " ">>}

\* Symbols a package document may hold (PackageDocument.symbols[])
SymGet == [name |-> <<"get">>, kind |-> <<"function">>, file_path |-> <<"src/get.ts">>,
           implementation |-> Some(Text(SnippetLen + 2)), is_exported |-> TRUE,
           relevance_score |-> Some(5), jsdoc |-> Some(<<"/** get */">>),
           signature |-> Some(<<"function get()">>)]
SymEmpty == [name |-> <<"Opts">>, kind |-> <<"interface">>, file_path |-> <<"src/opts.ts">>,
             implementation |-> Some(<<>>), is_exported |-> TRUE,
             relevance_score |-> Some(7), jsdoc |-> None, signature |-> None]
SymShort == [name |-> <<"_id">>, kind |-> <<"const">>, file_path |-> <<"src/id.ts">>,
             implementation |-> Some(Text(2)), is_exported |-> FALSE,
             relevance_score |-> None, jsdoc |-> None,
             signature |-> Some(<<"const _id">>)]
StoredSymbols == {SymGet, SymEmpty, SymShort}

\* Sequences of distinct elements of S, of length at most n
DistinctSeqs(S, n) ==
    UNION {{q \in [1..k -> S] : \A i, j \in 1..k : i # j => q[i] # q[j]} : k \in 0..n}

VersionOf(name) == <<"1.0.0">>

\* the document id the indexer gives a package: name@version
DocIdOf(name) == name \o <<"@">> \o VersionOf(name)

\* a package document as the index returns it
DocOf(id, name, symbols) ==
    [id |-> id, name |-> name, version |-> VersionOf(name),
     readme_content |-> <<"# readme">>, symbols |-> symbols]

\* the symbols[] a stored document may hold
SymbolLists == DistinctSeqs(StoredSymbols, MaxSymbols)

\* createAnswerService options
Null == "null"

\* the generativeModel / generativeModels pairs a caller passes
ModelOptions ==
    {[generativeModel |-> Null, generativeModels |-> None],
     [generativeModel |-> "primary", generativeModels |-> None],
     [generativeModel |-> Null, generativeModels |-> Some(<<>>)],
     [generativeModel |-> Null, generativeModels |-> Some(<<Null>>)],
     [generativeModel |-> "primary", generativeModels |-> Some(<<Null>>)],
     [generativeModel |-> Null, generativeModels |-> Some(<<"primary", "fallback">>)],
     [generativeModel |-> "primary", generativeModels |-> Some(<<Null, "fallback">>)]}

OptionsSet ==
    {[generativeModel |-> m.generativeModel, generativeModels |-> m.generativeModels,
      maxRetries |-> r, allowUngroundedFallback |-> a] :
        m \in ModelOptions,
        r \in {None} \cup {Some(n) : n \in 0..MaxRetriesBound},
        a \in {None, Some(TRUE), Some(FALSE)}}

\* AnswerRequest payloads
Request(packageName, query, snippets) ==
    [intent |-> <<"parse a string">>, packageName |-> packageName,
     searchQuery |-> query, maxSnippets |-> snippets]

BlankQuery == <<" ", "\t">>
PaddedQuery == <<" ", "string schema", "\n">>

Payloads ==
    {Request(<<"zod">>, None, None),
     Request(<<"zod">>, Some(BlankQuery), Some(1)),
     Request(<<"zod">>, Some(PaddedQuery), Some(1)),
     Request(<<"yup">>, Some(PaddedQuery), None),
     Request(<<"yup">>, Some(<<>>), Some(1))}

\* fetchSymbolContext arguments
ContextArgs ==
    [docId : {DocIdOf(<<"zod">>)},
     name : {<<"zod">>},
     query : {<<"string schema">>},
     maxSnippets : {1, DefaultMaxSnippets}]

-----------------------------------------------------------------------------
(* The external index and the generative models, as seen by the client *)

\* a reply is a thrown value or a returned object
OkReply(v) == [threw |-> None, value |-> Some(v)]
ThrowReply(e) == [threw |-> Some(e), value |-> None]

\* _source filtering of an inner hit: fields not requested come back undefined
SourceFilter(symbol, withScore) ==
    IF withScore THEN symbol ELSE [symbol EXCEPT !.relevance_score = None]

\* Inner hits of the nested symbols query: up to `size` symbols of the document
InnerHits(size, withScore) ==
    {[i \in 1..Len(q) |-> SourceFilter(q[i], withScore)] :
        q \in DistinctSeqs(StoredSymbols, Min(size, MaxSymbols))}

\* esClient.search with size 1: it throws, or yields hits.hits (no hit, or the
\* one matching document with its inner hits)
SearchReplies(id, name, size, withScore) ==
    {ThrowReply(e) : e \in IndexThrows}
    \cup {OkReply([hits |-> <<>>])}
    \cup {OkReply([hits |-> <<[id |-> id,
                               source |-> [name |-> name, version |-> VersionOf(name),
                                           readme_content |-> <<"# readme">>],
                               inner |-> ih]>>]) :
            ih \in InnerHits(size, withScore)}

\* esClient.get: it throws (also when the id is unknown), or yields the document
\* stored under the id at that moment
GetReplies(id, name) ==
    {ThrowReply(e) : e \in IndexThrows}
    \cup {OkReply(DocOf(id, name, ss)) : ss \in SymbolLists}

\* model.generateContent(prompt) followed by result.response.text()
GenerateReplies ==
    {ThrowReply(e) : e \in ModelThrows} \cup {OkReply([text |-> t]) : t \in ModelTexts}

Call(op, on, arg, reply) ==
    [op |-> op, on |-> on, arg |-> arg, threw |-> reply.threw, value |-> reply.value]

-----------------------------------------------------------------------------
(* Pure helpers of answer.ts *)

\* variant: the snippet is the whole implementation
ToSymbolMatch_NoSlice(symbol) ==
    [name |-> symbol.name, kind |-> symbol.kind, file_path |-> symbol.file_path,
     snippet |-> OrElse(symbol.implementation, <<>>),
     is_exported |-> symbol.is_exported, relevance_score |-> symbol.relevance_score,
     implementation |-> symbol.implementation, jsdoc |-> symbol.jsdoc,
     signature |-> symbol.signature]

\* the object literal mapping a stored symbol to a SymbolMatch
ToSymbolMatch(symbol) ==
    [name |-> symbol.name, kind |-> symbol.kind, file_path |-> symbol.file_path,
     snippet |-> Slice0(OrElse(symbol.implementation, <<>>), SnippetLen),
     is_exported |-> symbol.is_exported, relevance_score |-> symbol.relevance_score,
     implementation |-> symbol.implementation, jsdoc |-> symbol.jsdoc,
     signature |-> symbol.signature]

\* Array.prototype.map with that object literal
ToSymbolMatches(q) == [i \in 1..Len(q) |-> ToSymbolMatch(q[i])]

\* Array.prototype.slice(0, n)
Take(q, n) == SubSeq(q, 1, Min(Len(q), n))

\* the predicate of the level-2 filter
HasImplementation(symbol) ==
    IsSome(symbol.implementation) /\ Len(Get(symbol.implementation)) > 0

ScoreOf(symbol) == OrElse(symbol.relevance_score, 0)

\* insert x into q (sorted by descending score) after every element that does
\* not rank below it: Array.prototype.sort is stable
RECURSIVE InsertByScore(_, _)
InsertByScore(x, q) ==
    IF q = <<>> THEN <<x>>
    ELSE IF ScoreOf(x) > ScoreOf(Head(q)) THEN <<x>> \o q
    ELSE <<Head(q)>> \o InsertByScore(x, Tail(q))

\* .sort((a, b) => (b.relevance_score ?? 0) - (a.relevance_score ?? 0))
RECURSIVE SortByScoreDesc(_)
SortByScoreDesc(q) ==
    IF q = <<>> THEN <<>>
    ELSE InsertByScore(q[Len(q)], SortByScoreDesc(SubSeq(q, 1, Len(q) - 1)))

\* level 2 of findRelevantCode: filter, sort, slice, map
RerankSymbols(allSymbols, n) ==
    ToSymbolMatches(Take(SortByScoreDesc(SelectSeq(allSymbols, HasImplementation)), n))

\* level 2 of fetchSymbolContext: slice, map
FirstSymbols(allSymbols, n) == ToSymbolMatches(Take(allSymbols, n))

\* variant: the message is matched without lower-casing it
isRetryableGeminiError_CaseSensitive(error) ==
    /\ error.type = "Error"
    /\ \/ Includes(error.message, <<"5", "0", "3">>)
       \/ Includes(error.message, <<"u","n","a","v","a","i","l","a","b","l","e">>)
       \/ Includes(error.message, <<"o","v","e","r","l","o","a","d","e","d">>)

\* variant: every Error instance is classified retryable
isRetryableGeminiError_AnyError(error) == error.type = "Error"

isRetryableGeminiError(error) ==
    /\ error.type = "Error"
    /\ LET message == ToLowerCase(error.message)
       IN  \/ Includes(message, <<"5", "0", "3">>)
           \/ Includes(message, <<"u","n","a","v","a","i","l","a","b","l","e">>)
           \/ Includes(message, <<"o","v","e","r","l","o","a","d","e","d">>)

\* Boolean(model)
IsModel(m) == m # Null

\* variant: null entries of generativeModels are kept
ModelsOf_NoFilter(o) ==
    IF IsSome(o.generativeModels) /\ Len(Get(o.generativeModels)) > 0
    THEN Get(o.generativeModels)
    ELSE IF o.generativeModel # Null THEN <<o.generativeModel>>
    ELSE <<>>

\* the models list built by createAnswerService
ModelsOf(o) ==
    IF IsSome(o.generativeModels) /\ Len(Get(o.generativeModels)) > 0
    THEN SelectSeq(Get(o.generativeModels), IsModel)
    ELSE IF o.generativeModel # Null THEN <<o.generativeModel>>
    ELSE <<>>

\* destructuring defaults of createAnswerService
MaxRetriesOf(o) == OrElse(o.maxRetries, DefaultMaxRetries)
AllowUngroundedOf(o) == OrElse(o.allowUngroundedFallback, FALSE)

\* variant: the attempt loop runs while attempt <= limit
AttemptLimit_OffByOne(o) == Max(1, MaxRetriesOf(o)) + 1

\* the bound of the attempt loop
AttemptLimit(o) == Max(1, MaxRetriesOf(o))

\* variant: the query is not trimmed before the || test
EffectiveQuery_NoTrim(p) ==
    IF IsSome(p.searchQuery) /\ Get(p.searchQuery) # <<>>
    THEN Get(p.searchQuery)
    ELSE p.intent

\* payload.searchQuery?.trim() || payload.intent
EffectiveQuery(p) ==
    IF IsSome(p.searchQuery) /\ Trim(Get(p.searchQuery)) # <<>>
    THEN Trim(Get(p.searchQuery))
    ELSE p.intent

NoSymbolsMessage(packageName, query) ==
    <<"No relevant symbols found for ">> \o packageName \o <<" with query \"">>
        \o query \o <<"\"">>

NotConfiguredMessage == <<"Gemini API key not configured">>
UngroundedNote == <<"Generated without grounded context. Verify against official docs before use.">>

\* variant: only the first caught error is remembered
Caught_KeepFirst(previous, error) == IF IsSome(previous) THEN previous ELSE Some(error)

\* the catch clause of the attempt loop: lastError = error
Caught(previous, error) == Some(error)

\* the message computed from lastError after the loops
FailureMessage(err) ==
    IF IsSome(err) /\ Get(err).type = "Error" THEN Get(err).message
    ELSE IF IsSome(err) /\ Get(err).type = "string" THEN Get(err).message
    ELSE <<"Failed to generate answer">>

ToCitation(symbol) ==
    [name |-> symbol.name, kind |-> symbol.kind, file_path |-> symbol.file_path,
     jsdoc |-> symbol.jsdoc, signature |-> symbol.signature,
     is_exported |-> symbol.is_exported]

\* groundedContext.symbols.map(...) of the response
Citations(q) == [i \in 1..Len(q) |-> ToCitation(q[i])]

HasGroundedContext(ctx) == IsSome(ctx) /\ Len(Get(ctx).symbols) > 0

PromptOf(p, ctx) ==
    IF HasGroundedContext(ctx)
    THEN [kind |-> "grounded",
          package |-> Get(ctx).source.name \o <<"@">> \o Get(ctx).source.version,
          intent |-> p.intent, implementations |-> Len(Get(ctx).symbols)]
    ELSE [kind |-> "ungrounded", package |-> p.packageName, intent |-> p.intent,
          implementations |-> 0]

Pending == [settled |-> "pending", value |-> None]
Resolved(v) == [settled |-> "resolved", value |-> Some(v)]
Rejected(e) == [settled |-> "rejected", value |-> Some([kind |-> "thrown", error |-> e])]

\* the array fetchSymbolContext resolves to
SymbolsValue(symbols) == [kind |-> "SymbolMatch[]", symbols |-> symbols]

ErrorValue(m) == [kind |-> "error", error |-> m]

\* variant: the note is attached to every response
AnswerResponse_AlwaysNote(p, query, text, ctx) ==
    [kind |-> "AnswerResponse", intent |-> p.intent, packageName |-> p.packageName,
     searchQuery |-> query, code |-> Trim(text),
     context |-> IF HasGroundedContext(ctx) THEN Citations(Get(ctx).symbols) ELSE <<>>,
     grounded |-> HasGroundedContext(ctx),
     note |-> Some(UngroundedNote)]

\* variant: only exported symbols are cited
AnswerResponse_ExportedOnly(p, query, text, ctx) ==
    [kind |-> "AnswerResponse", intent |-> p.intent, packageName |-> p.packageName,
     searchQuery |-> query, code |-> Trim(text),
     context |-> IF HasGroundedContext(ctx)
                 THEN Citations(SelectSeq(Get(ctx).symbols, LAMBDA x : x.is_exported))
                 ELSE <<>>,
     grounded |-> HasGroundedContext(ctx),
     note |-> IF HasGroundedContext(ctx) THEN None ELSE Some(UngroundedNote)]

AnswerResponse(p, query, text, ctx) ==
    [kind |-> "AnswerResponse", intent |-> p.intent, packageName |-> p.packageName,
     searchQuery |-> query, code |-> Trim(text),
     context |-> IF HasGroundedContext(ctx) THEN Citations(Get(ctx).symbols) ELSE <<>>,
     grounded |-> HasGroundedContext(ctx),
     note |-> IF HasGroundedContext(ctx) THEN None ELSE Some(UngroundedNote)]

-----------------------------------------------------------------------------
(* The parts of the program a specification leaves untouched *)

\* no symbol list has been handed to the code parser's functions
SymbolIdle ==
    /\ parsed = <<>>
    /\ filtered = None
    /\ refiltered = None
    /\ scores = None

\* indexPackage has not been called
IngestIdle ==
    /\ ipc = "idle"
    /\ pkgArg = <<>>
    /\ pkgJson = None
    /\ repoUrl = None
    /\ strategyLog = <<>>
    /\ tempDirExists = FALSE
    /\ tarball = [created |-> FALSE, cleanup |-> "none"]
    /\ sourceCode = Pending
    /\ allParsed = <<>>
    /\ submitted = <<>>
    /\ indexResult = Pending

\* no job has been enqueued
JobsIdle ==
    /\ jobs = <<>>
    /\ reported = <<>>

\* fetchFromNpmTarball is not running
TarballIdle ==
    /\ clock = 0
    /\ fetches = <<>>
    /\ disk = {}

\* no request on the answer route
RouteIdle ==
    /\ requests = <<>>
    /\ httpReplies = <<>>

\* indexPackages has not been called and the index is empty
BatchIdle ==
    /\ bpc = "idle"
    /\ caller = [kind |-> "none", packageName |-> ""]
    /\ packages = <<>>
    /\ cursor = 0
    /\ successful = 0
    /\ failed = 0
    /\ current = [pkg |-> "", seen |-> <<>>, data |-> <<>>, fetched |-> <<>>, doc |-> <<>>]
    /\ processed = <<>>
    /\ store = {}
    /\ writes = {}
    /\ reportedBack = <<>>

-----------------------------------------------------------------------------
(* State after createAnswerService(options), before any request *)

Init ==
    /\ options \in OptionsSet
    /\ models = ModelsOf(options)
    /\ entry = "none"
    /\ payload = [none |-> TRUE]
    /\ pc = "idle"
    /\ searchQuery = <<>>
    /\ maxSnippets = 0
    /\ hit = None
    /\ context = None
    /\ modelIdx = 0
    /\ attempt = 0
    /\ lastError = None
    /\ calls = <<>>
    /\ result = Pending
    /\ SymbolIdle
    /\ IngestIdle
    /\ BatchIdle
    /\ JobsIdle
    /\ TarballIdle
    /\ RouteIdle

-----------------------------------------------------------------------------
(* generateAnswer *)

\* generateAnswer from its entry up to the await of findRelevantCode's search
Call_generateAnswer(p) ==
    /\ pc = "idle"
    /\ entry' = "generateAnswer"
    /\ payload' = p
    /\ IF Len(models) = 0
       THEN /\ result' = Resolved(ErrorValue(NotConfiguredMessage))
            /\ pc' = "done"
            /\ UNCHANGED <<searchQuery, maxSnippets>>
       ELSE /\ searchQuery' = EffectiveQuery(p)
            /\ maxSnippets' = OrElse(p.maxSnippets, DefaultMaxSnippets)
            /\ pc' = "findRelevantCode.search"
            /\ UNCHANGED result
    /\ UNCHANGED <<options, models, hit, context, modelIdx, attempt, lastError, calls>>
    /\ UNCHANGED besidesAnswer

\* variant: the ungrounded-fallback flag is not consulted
AfterContext_NoRejection(ctx) ==
    /\ context' = ctx
    /\ pc' = "generate"
    /\ modelIdx' = 1
    /\ attempt' = 0
    /\ lastError' = None
    /\ UNCHANGED result

\* generateAnswer from the return of findRelevantCode up to the first
\* generateContent call
AfterContext(ctx) ==
    IF ~HasGroundedContext(ctx) /\ ~AllowUngroundedOf(options)
    THEN /\ result' = Resolved(ErrorValue(NoSymbolsMessage(payload.packageName, searchQuery)))
         /\ pc' = "done"
         /\ context' = ctx
         /\ UNCHANGED <<modelIdx, attempt, lastError>>
    ELSE /\ context' = ctx
         /\ pc' = "generate"
         /\ modelIdx' = 1
         /\ attempt' = 0
         /\ lastError' = None
         /\ UNCHANGED result

ContextOf(source, symbols) ==
    Some([source |-> source, symbols |-> symbols, readme |-> source.readme_content])

\* findRelevantCode: the level-1 search settles
FRC_Search ==
    /\ pc = "findRelevantCode.search"
    /\ \E r \in SearchReplies(DocIdOf(payload.packageName), payload.packageName, maxSnippets, FALSE) :
        /\ calls' = Append(calls, Call("search", "index", [query |-> searchQuery], r))
        /\ IF IsSome(r.threw)
           THEN /\ result' = Rejected(Get(r.threw))
                /\ pc' = "done"
                /\ UNCHANGED <<hit, context, modelIdx, attempt, lastError>>
           ELSE IF Len(Get(r.value).hits) = 0
           THEN /\ AfterContext(None)
                /\ UNCHANGED hit
           ELSE LET first == Get(r.value).hits[1]
                    symbols == ToSymbolMatches(first.inner)
                IN  /\ hit' = Some(first)
                    /\ IF Len(symbols) = 0
                       THEN /\ pc' = "findRelevantCode.get"
                            /\ UNCHANGED <<context, modelIdx, attempt, lastError, result>>
                       ELSE AfterContext(ContextOf(first.source, symbols))
    /\ UNCHANGED <<options, models, entry, payload, searchQuery, maxSnippets>>
    /\ UNCHANGED besidesAnswer

\* findRelevantCode: the level-2 get-by-id settles
FRC_Get ==
    /\ pc = "findRelevantCode.get"
    /\ \E r \in GetReplies(Get(hit).id, Get(hit).source.name) :
        /\ calls' = Append(calls, Call("get", "index", [id |-> Get(hit).id], r))
        /\ IF IsSome(r.threw)
           THEN AfterContext(ContextOf(Get(hit).source, <<>>))
           ELSE AfterContext(ContextOf(Get(r.value),
                                       RerankSymbols(Get(r.value).symbols, maxSnippets)))
    /\ UNCHANGED <<options, models, entry, payload, searchQuery, maxSnippets, hit>>
    /\ UNCHANGED besidesAnswer

\* one iteration of the attempt loop: a generateContent call settles
Generate ==
    /\ pc = "generate"
    /\ \E r \in GenerateReplies :
        /\ calls' = Append(calls, Call("generateContent", models[modelIdx],
                                       PromptOf(payload, context), r))
        /\ IF ~IsSome(r.threw)
           THEN /\ result' = Resolved(AnswerResponse(payload, searchQuery, Get(r.value).text, context))
                /\ pc' = "done"
                /\ UNCHANGED <<modelIdx, attempt, lastError>>
           ELSE LET error == Get(r.threw)
                    again == isRetryableGeminiError(error)
                                /\ attempt + 1 < AttemptLimit(options)
                    nextModel == IF again THEN modelIdx ELSE modelIdx + 1
                IN  /\ lastError' = Caught(lastError, error)
                    /\ modelIdx' = nextModel
                    /\ attempt' = IF again THEN attempt + 1 ELSE 0
                    /\ IF nextModel > Len(models)
                       THEN /\ result' = Resolved(ErrorValue(FailureMessage(lastError')))
                            /\ pc' = "done"
                       ELSE UNCHANGED <<result, pc>>
    /\ UNCHANGED <<options, models, entry, payload, searchQuery, maxSnippets,
                   hit, context>>
    /\ UNCHANGED besidesAnswer

-----------------------------------------------------------------------------
(* fetchSymbolContext *)

Call_fetchSymbolContext(a) ==
    /\ pc = "idle"
    /\ entry' = "fetchSymbolContext"
    /\ payload' = a
    /\ searchQuery' = a.query
    /\ maxSnippets' = a.maxSnippets
    /\ pc' = "fetchSymbolContext.search"
    /\ UNCHANGED <<options, models, hit, context, modelIdx, attempt, lastError,
                   calls, result>>
    /\ UNCHANGED besidesAnswer

\* the level-1 search settles
FSC_Search ==
    /\ pc = "fetchSymbolContext.search"
    /\ \E r \in SearchReplies(payload.docId, payload.name, maxSnippets, TRUE) :
        /\ calls' = Append(calls, Call("search", "index", [query |-> searchQuery], r))
        /\ IF IsSome(r.threw)
           THEN /\ result' = Rejected(Get(r.threw))
                /\ pc' = "done"
           ELSE LET hits == Get(r.value).hits
                    innerHits == IF Len(hits) > 0 THEN hits[1].inner ELSE <<>>
                IN  IF Len(innerHits) > 0
                    THEN /\ result' = Resolved(SymbolsValue(ToSymbolMatches(innerHits)))
                         /\ pc' = "done"
                    ELSE /\ pc' = "fetchSymbolContext.get"
                         /\ UNCHANGED result
    /\ UNCHANGED <<options, models, entry, payload, searchQuery, maxSnippets,
                   hit, context, modelIdx, attempt, lastError>>
    /\ UNCHANGED besidesAnswer

\* variant: the get-by-id is not wrapped in try/catch
FSC_Get_NoCatch ==
    /\ pc = "fetchSymbolContext.get"
    /\ \E r \in GetReplies(payload.docId, payload.name) :
        /\ calls' = Append(calls, Call("get", "index", [id |-> payload.docId], r))
        /\ result' = IF IsSome(r.threw)
                     THEN Rejected(Get(r.threw))
                     ELSE Resolved(SymbolsValue(FirstSymbols(Get(r.value).symbols, maxSnippets)))
        /\ pc' = "done"
    /\ UNCHANGED <<options, models, entry, payload, searchQuery, maxSnippets,
                   hit, context, modelIdx, attempt, lastError>>
    /\ UNCHANGED besidesAnswer

\* the level-2 get-by-id settles
FSC_Get ==
    /\ pc = "fetchSymbolContext.get"
    /\ \E r \in GetReplies(payload.docId, payload.name) :
        /\ calls' = Append(calls, Call("get", "index", [id |-> payload.docId], r))
        /\ result' = IF IsSome(r.threw)
                     THEN Resolved(SymbolsValue(<<>>))
                     ELSE Resolved(SymbolsValue(FirstSymbols(Get(r.value).symbols, maxSnippets)))
        /\ pc' = "done"
    /\ UNCHANGED <<options, models, entry, payload, searchQuery, maxSnippets,
                   hit, context, modelIdx, attempt, lastError>>
    /\ UNCHANGED besidesAnswer

-----------------------------------------------------------------------------

Next ==
    \/ \E p \in Payloads : Call_generateAnswer(p)
    \/ FRC_Search
    \/ FRC_Get
    \/ Generate
    \/ \E a \in ContextArgs : Call_fetchSymbolContext(a)
    \/ FSC_Search
    \/ FSC_Get

Spec == Init /\ [][Next]_vars

\* every awaited call of a collaborator settles
FairSpec == Spec /\ WF_vars(Next)

TypeOK ==
    /\ pc \in {"idle", "findRelevantCode.search", "findRelevantCode.get", "generate",
               "fetchSymbolContext.search", "fetchSymbolContext.get", "done"}
    /\ result.settled \in {"pending", "resolved", "rejected"}
    /\ (pc = "done") <=> (result.settled # "pending")

-----------------------------------------------------------------------------
(* Observations on a generateAnswer request *)

IsGenerateCall(c) == c.op = "generateContent"
IsIndexCall(c) == c.op \in {"search", "get"}

\* the generateContent calls made so far, in order
GenerateCalls == SelectSeq(calls, IsGenerateCall)
IndexCalls == SelectSeq(calls, IsIndexCall)

\* number of generateContent calls made so far on model m
CallsOn(m) == Cardinality({i \in 1..Len(GenerateCalls) : GenerateCalls[i].on = m})

\* position of model m in the configured priority order
PositionOf(m) == CHOOSE k \in 1..Len(models) : models[k] = m

AnswerDone == entry = "generateAnswer" /\ pc = "done"
AnswerFailed ==
    AnswerDone /\ result.settled = "resolved" /\ Get(result.value).kind = "error"
AnswerSucceeded ==
    AnswerDone /\ result.settled = "resolved" /\ Get(result.value).kind = "AnswerResponse"

\* findRelevantCode has returned (it did not throw) to a configured service
RetrievalReturned ==
    /\ entry = "generateAnswer"
    /\ pc \in {"generate", "done"}
    /\ Len(IndexCalls) > 0
    /\ ~IsSome(IndexCalls[Len(IndexCalls)].threw) \/ IndexCalls[Len(IndexCalls)].op = "get"

\* the symbol matches findRelevantCode returned
RetrievedSymbols == IF IsSome(context) THEN Get(context).symbols ELSE <<>>

\* thrown values that are Error instances carrying a transient marker
RetryableErrors == {ErrUnavailable, Err503}
NonRetryableErrors == ModelThrows \ RetryableErrors

-----------------------------------------------------------------------------
(* C1: when retrieval yields zero symbol matches (no document, or a         *)
(* document without symbol matches) and allowUngroundedFallback is false,  *)
(* generateAnswer returns {error} whose message names the package and the  *)
(* effective query, and no generateContent call is made on any model.      *)

C1_UngroundedRejected ==
    (/\ RetrievalReturned
     /\ Len(RetrievedSymbols) = 0
     /\ options.allowUngroundedFallback \in {None, Some(FALSE)})
    => /\ AnswerFailed
       /\ Includes(Get(result.value).error, payload.packageName)
       /\ Includes(Get(result.value).error, searchQuery)
       /\ Len(GenerateCalls) = 0

\* a level-2 lookup that left no symbol led to the rejection of the request
C1_Witness ==
    /\ AnswerFailed
    /\ Len(IndexCalls) = 2
    /\ Len(RetrievedSymbols) = 0
    /\ options.allowUngroundedFallback = None
    /\ Get(result.value).error = NoSymbolsMessage(<<"zod">>, <<"string schema">>)

(* C2: when retrieval yields at least one symbol match and generation       *)
(* succeeds, the response has grounded = true and a non-empty context with *)
(* exactly one citation per retrieved symbol match, in the same order.     *)

C2_GroundedResponse ==
    (AnswerSucceeded /\ Len(RetrievedSymbols) >= 1)
    => /\ Get(result.value).grounded = TRUE
       /\ Len(Get(result.value).context) >= 1
       /\ Len(Get(result.value).context) = Len(RetrievedSymbols)
       /\ \A i \in 1..Len(RetrievedSymbols) :
            /\ Get(result.value).context[i].name = RetrievedSymbols[i].name
            /\ Get(result.value).context[i].file_path = RetrievedSymbols[i].file_path

\* a grounded success citing two symbols obtained by the level-2 lookup
C2_Witness ==
    /\ AnswerSucceeded
    /\ Len(RetrievedSymbols) = 2
    /\ Len(IndexCalls) = 2
    /\ Get(result.value).grounded

(* C3: retry boundary. If the primary model throws a retryable error on its *)
(* first maxRetries - 1 calls and then succeeds (maxRetries >= 1),          *)
(* generateAnswer returns success after exactly maxRetries generateContent *)
(* calls on the primary model and none on a fallback model.                *)

\* every call made so far on the primary model behaved as that mock does
PrimaryRetriesThenSucceeds ==
    \A i \in 1..Len(GenerateCalls) :
        GenerateCalls[i].on = models[1]
        => /\ i < MaxRetriesOf(options) => GenerateCalls[i].threw \in {Some(e) : e \in RetryableErrors}
           /\ i >= MaxRetriesOf(options) => GenerateCalls[i].threw = None

C3_RetryBoundary ==
    (/\ AnswerDone
     /\ Len(GenerateCalls) >= 1
     /\ MaxRetriesOf(options) >= 1
     /\ PrimaryRetriesThenSucceeds)
    => /\ AnswerSucceeded
       /\ CallsOn(models[1]) = MaxRetriesOf(options)
       /\ Len(GenerateCalls) = MaxRetriesOf(options)

\* the primary failed with a retryable error, then succeeded, with a fallback
\* model configured and never called
C3_Witness ==
    /\ AnswerSucceeded
    /\ models = <<"primary", "fallback">>
    /\ options.maxRetries = Some(2)
    /\ Len(GenerateCalls) = 2
    /\ GenerateCalls[1].threw = Some(ErrUnavailable)
    /\ GenerateCalls[2].threw = None
    /\ CallsOn("fallback") = 0

(* C4: fallback boundary. If the primary model throws a non-retryable error *)
(* it is called exactly once, whatever maxRetries is, and the very next    *)
(* generateContent call is on the next configured model.                   *)

C4_FallbackBoundary ==
    (/\ entry = "generateAnswer"
     /\ Len(GenerateCalls) >= 1
     /\ GenerateCalls[1].threw \in {Some(e) : e \in NonRetryableErrors})
    => /\ CallsOn(models[1]) = 1
       /\ Len(GenerateCalls) >= 2 => GenerateCalls[2].on = models[2]
       /\ (pc = "done" /\ Len(models) >= 2) => Len(GenerateCalls) >= 2

\* with maxRetries 2 the primary threw a non-retryable Error once and the next
\* call went to the fallback
C4_Witness ==
    /\ entry = "generateAnswer"
    /\ options.maxRetries = Some(2)
    /\ Len(GenerateCalls) = 2
    /\ GenerateCalls[1].on = "primary"
    /\ GenerateCalls[1].threw = Some(ErrQuota)
    /\ GenerateCalls[2].on = "fallback"

(* C5 (as amended): generateAnswer calls each configured model at most      *)
(* max(1, maxRetries) times (once when maxRetries is not given), visits    *)
(* the models in configured priority order, and calls a later model only   *)
(* after the earlier one used all its attempts or threw a non-retryable    *)
(* error; so one request makes at most (number of models) x                *)
(* max(1, maxRetries) generateContent calls, and the call terminates.      *)

\* the attempts one model may get, as the amended claim states it
C5_Attempts ==
    IF IsSome(options.maxRetries)
    THEN (IF Get(options.maxRetries) >= 1 THEN Get(options.maxRetries) ELSE 1)
    ELSE 1

\* number of calls on the model of the i-th generateContent call, up to it
C5_CallsUpTo(i) ==
    Cardinality({j \in 1..i : GenerateCalls[j].on = GenerateCalls[i].on})

C5_Bounded ==
    entry = "generateAnswer"
    => /\ \A k \in 1..Len(models) : CallsOn(models[k]) <= C5_Attempts
       /\ Len(GenerateCalls) <= Len(models) * C5_Attempts
       /\ Len(GenerateCalls) >= 1 => GenerateCalls[1].on = models[1]
       /\ \A i \in 1..(Len(GenerateCalls) - 1) :
            \/ GenerateCalls[i + 1].on = GenerateCalls[i].on
            \/ /\ PositionOf(GenerateCalls[i + 1].on) = PositionOf(GenerateCalls[i].on) + 1
               /\ \/ GenerateCalls[i].threw \in {Some(e) : e \in NonRetryableErrors}
                  \/ C5_CallsUpTo(i) = C5_Attempts

C5_BoundedAndTerminates == []C5_Bounded /\ <>(pc = "done")

\* both models used every attempt maxRetries allows, and the request ended
C5_Witness ==
    /\ AnswerDone
    /\ options.maxRetries = Some(MaxRetriesBound)
    /\ CallsOn("primary") = MaxRetriesBound
    /\ CallsOn("fallback") = MaxRetriesBound

\* C5 as stated: no model is called more than maxRetries times
C5_Original ==
    entry = "generateAnswer"
    => \A k \in 1..Len(models) : CallsOn(models[k]) <= MaxRetriesOf(options)

(* C6: when every attempt on every configured model has failed,             *)
(* generateAnswer returns {error: m} where m is the message of the error   *)
(* thrown by the last generateContent attempt made (a thrown string is its *)
(* own message; a thrown value without a message yields the fixed text),   *)
(* and no success response.                                                *)

C6_MessageOf(thrown) ==
    CASE thrown.type = "Error" -> thrown.message
      [] thrown.type = "string" -> thrown.message
      [] OTHER -> <<"Failed to generate answer">>

C6_LastErrorReported ==
    (/\ AnswerDone
     /\ Len(GenerateCalls) >= 1
     /\ \A i \in 1..Len(GenerateCalls) : IsSome(GenerateCalls[i].threw))
    => /\ AnswerFailed
       /\ Get(result.value).error =
            C6_MessageOf(Get(GenerateCalls[Len(GenerateCalls)].threw))

\* three failed attempts whose last error differs from the earlier ones
C6_Witness ==
    /\ AnswerFailed
    /\ Len(GenerateCalls) = 3
    /\ GenerateCalls[1].threw = Some(ErrUnavailable)
    /\ GenerateCalls[2].threw = Some(Err503)
    /\ GenerateCalls[3].threw = Some(ErrQuota)
    /\ Get(result.value).error = <<"quota exceeded">>

(* C7: if zero generative models are configured (none passed, or every      *)
(* passed entry null), generateAnswer returns a configuration {error}      *)
(* immediately: no call to the search index and no generateContent call.   *)

C7_NonePassed ==
    /\ options.generativeModel = Null
    /\ IsSome(options.generativeModels)
       => \A i \in 1..Len(Get(options.generativeModels)) :
            Get(options.generativeModels)[i] = Null

C7_NotConfigured ==
    (entry = "generateAnswer" /\ C7_NonePassed)
    => /\ AnswerFailed
       /\ Get(result.value).error = <<"Gemini API key not configured">>
       /\ calls = <<>>

\* a service built from a generativeModels list holding only null rejected a
\* request
C7_Witness ==
    /\ AnswerFailed
    /\ options.generativeModel = Null
    /\ options.generativeModels = Some(<<Null>>)
    /\ calls = <<>>

(* C8: whatever the index and the models do, the promise returned by        *)
(* generateAnswer resolves to an AnswerResponse or to {error: string}; it  *)
(* never rejects with a raw exception.                                     *)

C8_NeverRejects ==
    entry = "generateAnswer" => result.settled # "rejected"

(* C9: when the index query issued during context lookup fails, the         *)
(* failure is swallowed and treated as an empty match list: with           *)
(* allowUngroundedFallback the request proceeds to generation in           *)
(* ungrounded mode, without it the ungrounded-rejection error is returned. *)

C9_LookupFailed ==
    /\ entry = "generateAnswer"
    /\ Len(IndexCalls) > 0
    /\ IsSome(IndexCalls[Len(IndexCalls)].threw)

C9_IndexFailureSwallowed ==
    C9_LookupFailed
    => /\ result.settled # "rejected"
       /\ Len(RetrievedSymbols) = 0
       /\ IF AllowUngroundedOf(options)
          THEN /\ pc = "generate" \/ Len(GenerateCalls) >= 1
               /\ \A i \in 1..Len(GenerateCalls) : GenerateCalls[i].arg.kind = "ungrounded"
          ELSE /\ AnswerFailed
               /\ Get(result.value).error = NoSymbolsMessage(payload.packageName, searchQuery)

(* C10: in fetchSymbolContext and in findRelevantCode the get-by-id lookup  *)
(* is issued only when the level-1 nested query returned zero inner-hits,  *)
(* and when that get-by-id fails the retriever yields an empty symbol list *)
(* instead of throwing, so generateAnswer treats the request as ungrounded.*)

\* number of inner hits a settled search call returned
C10_InnerHitsOf(call) ==
    IF IsSome(call.value) /\ Len(Get(call.value).hits) > 0
    THEN Len(Get(call.value).hits[1].inner)
    ELSE 0

C10_GetFailed ==
    /\ Len(calls) >= 2
    /\ calls[2].op = "get"
    /\ IsSome(calls[2].threw)

C10_CascadeOrder ==
    /\ \A i \in 1..Len(calls) :
         calls[i].op = "get"
         => /\ i > 1
            /\ calls[i - 1].op = "search"
            /\ calls[i - 1].threw = None
            /\ C10_InnerHitsOf(calls[i - 1]) = 0
    /\ (C10_GetFailed /\ entry = "fetchSymbolContext")
       => result = Resolved(SymbolsValue(<<>>))
    /\ (C10_GetFailed /\ entry = "generateAnswer")
       => /\ result.settled # "rejected"
          /\ RetrievedSymbols = <<>>
          /\ \A i \in 1..Len(GenerateCalls) : GenerateCalls[i].arg.kind = "ungrounded"
          /\ AnswerSucceeded => ~Get(result.value).grounded
          /\ ~AllowUngroundedOf(options) => AnswerFailed

\* a failed get-by-id after an empty level-1 query, answered ungrounded
C10_Witness ==
    /\ AnswerSucceeded
    /\ C10_GetFailed
    /\ C10_InnerHitsOf(calls[1]) = 0
    /\ ~Get(result.value).grounded

-----------------------------------------------------------------------------
(* Observations on the context retrievers *)

\* the level-2 get-by-id returned a document
Level2Returned ==
    /\ Len(calls) >= 2
    /\ calls[2].op = "get"
    /\ calls[2].threw = None
    /\ pc # "fetchSymbolContext.get" /\ pc # "findRelevantCode.get"

\* the symbol matches the invoked retriever produced
ProducedSymbols ==
    IF entry = "fetchSymbolContext"
    THEN (IF result.settled = "resolved" THEN Get(result.value).symbols ELSE <<>>)
    ELSE RetrievedSymbols

\* number of symbols of q with a non-empty implementation
NonEmptyCount(q) ==
    Cardinality({i \in 1..Len(q) :
                    IsSome(q[i].implementation) /\ Get(q[i].implementation) # <<>>})

(* C11: whenever the level-1 query returns no inner-hits, the symbols the   *)
(* context retriever returns (fetchSymbolContext as well as                *)
(* findRelevantCode) are exactly the document's symbols with non-empty     *)
(* implementation, ordered by descending stored relevance score, cut to    *)
(* the first maxSnippets.                                                  *)

C11_Level2Result ==
    Level2Returned
    => LET stored == Get(calls[2].value).symbols
           out == ProducedSymbols
       IN  /\ Len(out) = Min(maxSnippets, NonEmptyCount(stored))
           /\ \A i \in 1..Len(out) :
                /\ IsSome(out[i].implementation) /\ Get(out[i].implementation) # <<>>
                /\ \E j \in 1..Len(stored) : stored[j].name = out[i].name
           /\ \A i \in 1..(Len(out) - 1) :
                OrElse(out[i].relevance_score, 0) >= OrElse(out[i + 1].relevance_score, 0)

(* C12: every SymbolMatch produced at any cascade level has snippet equal   *)
(* to the first min(160, length) characters of the implementation (so      *)
(* snippet length <= 160), while its implementation field equals the       *)
(* stored implementation untruncated.                                      *)

C12_SnippetTruncated ==
    \A i \in 1..Len(ProducedSymbols) :
        LET m == ProducedSymbols[i]
            text == IF IsSome(m.implementation) THEN Get(m.implementation) ELSE <<>>
        IN  /\ Len(m.snippet) = (IF Len(text) < 160 THEN Len(text) ELSE 160)
            /\ \A k \in 1..Len(m.snippet) : m.snippet[k] = text[k]
            /\ \E s \in StoredSymbols :
                 s.name = m.name /\ s.implementation = m.implementation

\* a match whose implementation is longer than its 160-character snippet
C12_Witness ==
    /\ pc = "done"
    /\ \E i \in 1..Len(ProducedSymbols) :
         /\ Len(ProducedSymbols[i].snippet) = 160
         /\ Len(Get(ProducedSymbols[i].implementation)) > 160

(* C13 (as amended): the effective search query used for retrieval is       *)
(* searchQuery trimmed of surrounding whitespace when it is provided and   *)
(* non-blank, otherwise intent; every success response echoes the          *)
(* request's intent and packageName unchanged and carries that effective   *)
(* query as searchQuery.                                                   *)

C13_IsBlank(s) == \A i \in 1..Len(s) : s[i] \in {" ", "\t", "\n"}

C13_Provided == IsSome(payload.searchQuery) /\ ~C13_IsBlank(Get(payload.searchQuery))

C13_EffectiveQuery ==
    entry = "generateAnswer"
    => LET expected == IF C13_Provided THEN Trim(Get(payload.searchQuery))
                       ELSE payload.intent
       IN  /\ \A i \in 1..Len(calls) : calls[i].op = "search" => calls[i].arg.query = expected
           /\ AnswerSucceeded
              => /\ Get(result.value).searchQuery = expected
                 /\ Get(result.value).intent = payload.intent
                 /\ Get(result.value).packageName = payload.packageName

\* a success answering a blank searchQuery with the intent as query
C13_Witness ==
    /\ AnswerSucceeded
    /\ payload.searchQuery = Some(BlankQuery)
    /\ Get(result.value).searchQuery = <<"parse a string">>

\* C13 as stated: a provided non-blank searchQuery is itself the effective query
C13_Original ==
    (AnswerSucceeded /\ C13_Provided)
    => Get(result.value).searchQuery = Get(payload.searchQuery)

(* C14: in every success response note is populated iff grounded is false,  *)
(* context is empty iff grounded is false, and an ungrounded success       *)
(* response occurs only when allowUngroundedFallback is true.              *)

C14_NoteIffUngrounded ==
    AnswerSucceeded
    => /\ IsSome(Get(result.value).note) <=> ~Get(result.value).grounded
       /\ (Get(result.value).context = <<>>) <=> ~Get(result.value).grounded
       /\ ~Get(result.value).grounded => options.allowUngroundedFallback = Some(TRUE)

\* an ungrounded success carrying the note
C14_Witness ==
    /\ AnswerSucceeded
    /\ ~Get(result.value).grounded
    /\ Get(result.value).note = Some(UngroundedNote)
    /\ Get(result.value).context = <<>>

-----------------------------------------------------------------------------
(* code-parser.ts: the symbol filter and the relevance score                *)
(*                                                                         *)
(* The strings of a ParsedSymbol are written as text, character by         *)
(* character: Len is String.prototype.length and SubSeq is substring.      *)

\* no answer service is in use
AnswerIdle ==
    /\ options = [generativeModel |-> Null, generativeModels |-> None,
                  maxRetries |-> None, allowUngroundedFallback |-> None]
    /\ models = ModelsOf(options)
    /\ entry = "none"
    /\ payload = [none |-> TRUE]
    /\ pc = "idle"
    /\ searchQuery = <<>>
    /\ maxSnippets = 0
    /\ hit = None
    /\ context = None
    /\ modelIdx = 0
    /\ attempt = 0
    /\ lastError = None
    /\ calls = <<>>
    /\ result = Pending

\* longest symbol list handed to the functions
MaxParsed == 2

\* thresholds of filterRelevantSymbols
MinImplementation == 50
MaxImplementation == 10000

\* thresholds and weights of calculateRelevanceScore
MinJsdoc == 20
MinReasonableSize == 100
MaxReasonableSize == 2000
ExportedWeight == 10
JsdocWeight == 5
PublicNameWeight == 3
ReasonableSizeWeight == 2
AsyncWeight == 2
ErrorHandlingWeight == 1
KeywordWeight == 2

\* String.prototype.startsWith
StartsWith(s, w) == Len(s) >= Len(w) /\ SubSeq(s, 1, Len(w)) = w

\* String.prototype.toLowerCase of a text
RECURSIVE LowerCaseText(_)
LowerCaseText(s) ==
    IF Len(s) = 0 THEN s
    ELSE IF Len(s) = 1 THEN LowerOf(s)
    ELSE LET half == Len(s) \div 2
             left == SubSeq(s, 1, half)
             right == SubSeq(s, half + 1, 2 * half)
             rest == SubSeq(s, 2 * half + 1, Len(s))
             lowered == LowerCaseText(left)
         IN  (IF left = right THEN lowered \o lowered
              ELSE lowered \o LowerCaseText(right)) \o LowerCaseText(rest)

\* a text of n characters
RECURSIVE Chars(_)
Chars(n) ==
    IF n = 0 THEN ""
    ELSE LET half == Chars(n \div 2)
         IN  IF n % 2 = 0 THEN half \o half ELSE half \o half \o "x"

\* the file-path markers filterRelevantSymbols looks for
TestFileMarkers == {".test.", ".spec.", "__tests__"}
MockFileMarkers == {"mock", "fixture", "__mocks__"}

\* the words calculateRelevanceScore looks for
AsyncWords == {"async", "await"}
ErrorHandlingWords == {"try", "catch", "throw"}
importantKeywords == {"fetch", "request", "http", "api", "execute", "call"}

\* source text of n characters that begins with `words`
Code(words, n) == words \o Chars(n - Len(words))

\* the beginning of a function that uses every word the score looks for
BusyCode == "async await try catch throw fetch request http api execute call"

PlainPath == "src/index.ts"

ParsedSymbol(name, exported, jsdoc, filePath, implementation) ==
    [kind |-> "function", name |-> name, isExported |-> exported, jsdoc |-> jsdoc,
     filePath |-> filePath, implementation |-> implementation,
     startLine |-> 1, endLine |-> 3]

\* symbols parseSourceFiles may produce
ParsedSymbols ==
    {\* exported, documented, reasonable size, every kind of word: the top score
     ParsedSymbol("fetchUser", TRUE, Some(Chars(MinJsdoc + 1)), PlainPath,
                  Code("async try fetch", MinReasonableSize + 1)),
     \* implementations around the two length thresholds, on a plain path
     ParsedSymbol("_id", FALSE, None, PlainPath, Chars(MinImplementation - 10)),
     ParsedSymbol("a", TRUE, Some(Chars(MinJsdoc)), PlainPath,
                  Chars(MinImplementation - 1)),
     ParsedSymbol("b", FALSE, None, PlainPath, Chars(MinImplementation)),
     ParsedSymbol("c", FALSE, None, PlainPath,
                  Code(BusyCode, MaxImplementation \div 2)),
     ParsedSymbol("d", FALSE, None, PlainPath, Code(BusyCode, MaxImplementation)),
     ParsedSymbol("e", TRUE, None, PlainPath, Code(BusyCode, MaxImplementation + 1)),
     \* one symbol per file-path marker
     ParsedSymbol("f", TRUE, None, "src/a.test.ts", Chars(MinReasonableSize)),
     ParsedSymbol("g", TRUE, None, "src/a.spec.ts",
                  Code(BusyCode, MaxReasonableSize)),
     ParsedSymbol("h", FALSE, None, "src/__tests__/a.ts",
                  Code(BusyCode, MaxReasonableSize - 1)),
     ParsedSymbol("i", FALSE, None, "src/mock/db.ts",
                  Code("catch", MinImplementation + 10)),
     ParsedSymbol("j", FALSE, None, "fixtures/data.ts",
                  Code("throw", MinImplementation + 10)),
     ParsedSymbol("k", FALSE, None, "__mocks__/fs.ts",
                  Code("API", MinImplementation + 10)),
     \* paths that come close to a marker
     ParsedSymbol("l", FALSE, None, "src/test/util.ts",
                  Code("Async", MinImplementation + 10)),
     ParsedSymbol("m", FALSE, None, "src/MockServer.ts",
                  Code("request", MinImplementation + 10)),
     \* an empty jsdoc and a private name
     ParsedSymbol("__init", TRUE, Some(""), PlainPath,
                  Code("call", MinImplementation + 10))}

\* the lists handed to the functions
ParsedLists == UNION {[1..k -> ParsedSymbols] : k \in 0..MaxParsed}

\* variant: an implementation of exactly 50 characters is dropped too
IsRelevantSymbol_DropsBoundary(symbol) ==
    /\ ~(Len(symbol.implementation) <= MinImplementation)
    /\ ~(Len(symbol.implementation) > MaxImplementation)
    /\ ~(\E w \in TestFileMarkers : Includes(symbol.filePath, w))
    /\ ~(\E w \in MockFileMarkers : Includes(symbol.filePath, w))

\* the callback of filterRelevantSymbols
IsRelevantSymbol(symbol) ==
    /\ ~(Len(symbol.implementation) < MinImplementation)
    /\ ~(Len(symbol.implementation) > MaxImplementation)
    /\ ~(\E w \in TestFileMarkers : Includes(symbol.filePath, w))
    /\ ~(\E w \in MockFileMarkers : Includes(symbol.filePath, w))

\* variant: the kept symbols come back in reverse order
filterRelevantSymbols_Reversed(q) ==
    LET kept == SelectSeq(q, IsRelevantSymbol)
    IN  [i \in 1..Len(kept) |-> kept[Len(kept) + 1 - i]]

filterRelevantSymbols(q) == SelectSeq(q, IsRelevantSymbol)

\* variant: an implementation of exactly 100 characters counts as reasonable
calculateRelevanceScore_InclusiveSize(symbol) ==
      (IF symbol.isExported THEN ExportedWeight ELSE 0)
    + (IF IsSome(symbol.jsdoc) /\ Len(Get(symbol.jsdoc)) > MinJsdoc
       THEN JsdocWeight ELSE 0)
    + (IF ~StartsWith(symbol.name, "_") THEN PublicNameWeight ELSE 0)
    + (IF Len(symbol.implementation) >= MinReasonableSize
          /\ Len(symbol.implementation) < MaxReasonableSize
       THEN ReasonableSizeWeight ELSE 0)
    + (IF \E w \in AsyncWords : Includes(symbol.implementation, w)
       THEN AsyncWeight ELSE 0)
    + (IF \E w \in ErrorHandlingWords : Includes(symbol.implementation, w)
       THEN ErrorHandlingWeight ELSE 0)
    + (IF \E w \in importantKeywords :
             Includes(LowerCaseText(symbol.implementation), w)
       THEN KeywordWeight ELSE 0)

calculateRelevanceScore(symbol) ==
      (IF symbol.isExported THEN ExportedWeight ELSE 0)
    + (IF IsSome(symbol.jsdoc) /\ Len(Get(symbol.jsdoc)) > MinJsdoc
       THEN JsdocWeight ELSE 0)
    + (IF ~StartsWith(symbol.name, "_") THEN PublicNameWeight ELSE 0)
    + (IF Len(symbol.implementation) > MinReasonableSize
          /\ Len(symbol.implementation) < MaxReasonableSize
       THEN ReasonableSizeWeight ELSE 0)
    + (IF \E w \in AsyncWords : Includes(symbol.implementation, w)
       THEN AsyncWeight ELSE 0)
    + (IF \E w \in ErrorHandlingWords : Includes(symbol.implementation, w)
       THEN ErrorHandlingWeight ELSE 0)
    + (IF \E w \in importantKeywords :
             Includes(LowerCaseText(symbol.implementation), w)
       THEN KeywordWeight ELSE 0)

\* a symbol list is about to be handed to the functions
SymbolInit ==
    /\ parsed \in ParsedLists
    /\ filtered = None
    /\ refiltered = None
    /\ scores = None
    /\ AnswerIdle
    /\ IngestIdle
    /\ BatchIdle
    /\ JobsIdle
    /\ TarballIdle
    /\ RouteIdle

\* filterRelevantSymbols(parsed)
Apply_filterRelevantSymbols ==
    /\ filtered = None
    /\ filtered' = Some(filterRelevantSymbols(parsed))
    /\ UNCHANGED <<parsed, refiltered, scores, besidesSymbol>>

\* filterRelevantSymbols applied to its own result
Apply_filterAgain ==
    /\ IsSome(filtered)
    /\ refiltered = None
    /\ refiltered' = Some(filterRelevantSymbols(Get(filtered)))
    /\ UNCHANGED <<parsed, filtered, scores, besidesSymbol>>

\* calculateRelevanceScore of every symbol of the list
Apply_calculateRelevanceScore ==
    /\ IsSome(refiltered)
    /\ scores = None
    /\ scores' = Some([i \in 1..Len(parsed) |-> calculateRelevanceScore(parsed[i])])
    /\ UNCHANGED <<parsed, filtered, refiltered, besidesSymbol>>

SymbolNext ==
    \/ Apply_filterRelevantSymbols
    \/ Apply_filterAgain
    \/ Apply_calculateRelevanceScore

SymbolSpec == SymbolInit /\ [][SymbolNext]_vars

-----------------------------------------------------------------------------
(* Observations on the symbol filter and the relevance score *)

\* a is b with some elements left out: same order, every element as it was
IsSubsequence(a, b) ==
    \E f \in [1..Len(a) -> 1..Len(b)] :
        /\ \A i, j \in 1..Len(a) : i < j => f[i] < f[j]
        /\ \A i \in 1..Len(a) : a[i] = b[f[i]]

Range(q) == {q[i] : i \in 1..Len(q)}

-----------------------------------------------------------------------------
(* C17: filterRelevantSymbols is idempotent: filtering its own result      *)
(* changes nothing; and its result is the input with some symbols left     *)
(* out, the others in their order and unmodified.                          *)

C17_Idempotent ==
    /\ IsSome(filtered) => IsSubsequence(Get(filtered), parsed)
    /\ IsSome(refiltered) => Get(refiltered) = Get(filtered)

\* a list that lost a symbol and kept another has been filtered twice
C17_Witness ==
    /\ IsSome(refiltered)
    /\ Len(Get(filtered)) >= 1
    /\ Len(Get(filtered)) < Len(parsed)

-----------------------------------------------------------------------------
(* C18: filterRelevantSymbols drops a symbol exactly when its              *)
(* implementation has fewer than 50 or more than 10,000 characters or its  *)
(* file path contains one of the markers .test. .spec. __tests__ mock      *)
(* fixture __mocks__; a 40-character implementation is dropped, and        *)
(* implementations of 50, 5,000 and 10,000 characters on a path without    *)
(* marker are kept.                                                        *)

C18_Markers == {".test.", ".spec.", "__tests__", "mock", "fixture", "__mocks__"}

C18_HasMarker(path) == \E w \in C18_Markers : Includes(path, w)

C18_Dropped(symbol) ==
    \/ Len(symbol.implementation) < 50
    \/ Len(symbol.implementation) > 10000
    \/ C18_HasMarker(symbol.filePath)

C18_Kept(symbol) == ~C18_Dropped(symbol)

C18_DropsExactly ==
    IsSome(filtered) =>
        /\ Get(filtered) = SelectSeq(parsed, C18_Kept)
        /\ \A i \in 1..Len(parsed) :
            /\ Len(parsed[i].implementation) = 40 => parsed[i] \notin Range(Get(filtered))
            /\ (Len(parsed[i].implementation) \in {50, 5000, 10000}
                /\ ~C18_HasMarker(parsed[i].filePath))
               => parsed[i] \in Range(Get(filtered))

\* a 40-character symbol was dropped next to a kept 10,000-character one
C18_Witness ==
    /\ IsSome(filtered)
    /\ \E i, j \in 1..Len(parsed) :
        /\ Len(parsed[i].implementation) = 40
        /\ Len(parsed[j].implementation) = 10000
        /\ Get(filtered) = <<parsed[j]>>

-----------------------------------------------------------------------------
(* C19: calculateRelevanceScore is the sum of the weights of the seven     *)
(* indicators that hold (10 exported, 5 jsdoc longer than 20, 3 name not   *)
(* starting with an underscore, 2 implementation length strictly between   *)
(* 100 and 2000, 2 async/await, 1 try/catch/throw, 2 keyword); symbols    *)
(* agreeing on the indicators get equal scores; the score is an integer    *)
(* from 0 to 25.                                                           *)

C19_Mentions(text, words) ==
    \E w \in words : \E i \in 1..(Len(text) - Len(w) + 1) :
        SubSeq(text, i, i + Len(w) - 1) = w

C19_Indicators(symbol) ==
    <<symbol.isExported,
      IsSome(symbol.jsdoc) /\ Len(Get(symbol.jsdoc)) > 20,
      ~(Len(symbol.name) > 0 /\ SubSeq(symbol.name, 1, 1) = "_"),
      100 < Len(symbol.implementation) /\ Len(symbol.implementation) < 2000,
      C19_Mentions(symbol.implementation, {"async", "await"}),
      C19_Mentions(symbol.implementation, {"try", "catch", "throw"}),
      C19_Mentions(LowerCaseText(symbol.implementation),
                   {"fetch", "request", "http", "api", "execute", "call"})>>

C19_Weights == <<10, 5, 3, 2, 2, 1, 2>>

RECURSIVE C19_Sum(_, _)
C19_Sum(indicators, k) ==
    IF k = 0 THEN 0
    ELSE C19_Sum(indicators, k - 1) + (IF indicators[k] THEN C19_Weights[k] ELSE 0)

C19_ScoreIsWeightSum ==
    IsSome(scores) =>
        /\ \A i \in 1..Len(parsed) :
            /\ Get(scores)[i] = C19_Sum(C19_Indicators(parsed[i]), 7)
            /\ Get(scores)[i] \in Int
            /\ 0 <= Get(scores)[i] /\ Get(scores)[i] <= 25
        /\ \A i, j \in 1..Len(parsed) :
            C19_Indicators(parsed[i]) = C19_Indicators(parsed[j])
            => Get(scores)[i] = Get(scores)[j]

\* two different symbols that agree on the seven indicators were scored
C19_Witness ==
    /\ IsSome(scores)
    /\ \E i, j \in 1..Len(parsed) :
        /\ parsed[i] # parsed[j]
        /\ C19_Indicators(parsed[i]) = C19_Indicators(parsed[j])
        /\ Get(scores)[i] = Get(scores)[j]
        /\ Get(scores)[i] > 0

-----------------------------------------------------------------------------
(* source-fetcher.ts and indexer.ts: one run of indexPackage               *)
(*                                                                         *)
(* The content of a file is named by what the parser finds in it. The      *)
(* README, the type declarations and the fields built from them are left   *)
(* out of the document.                                                    *)

\* longest file tree a repository or a tarball holds
MaxFiles == 2

\* program constants of the fetch strategies
MaxFileSize == 100000
GitHubFileLimit == 20

\* String.prototype.endsWith, the `$` of the regular expressions
EndsWith(s, w) == Len(s) >= Len(w) /\ SubSeq(s, Len(s) - Len(w) + 1, Len(s)) = w

PackageNames == {"zod"}

GitHubUrl == "git+https://github.com/colinhacks/zod.git"

\* values of the `repository` field of a package.json
Repositories ==
    {None} \cup
    {Some([isString |-> TRUE, url |-> Some(u)]) : u \in {GitHubUrl, "https://gitlab.com/colinhacks/zod", ""}} \cup
    {Some([isString |-> FALSE, url |-> u]) : u \in {None, Some(GitHubUrl)}}

\* what fetchPackage returns as pkgJson: the package.json, or its stand-in when
\* the package.json could not be fetched
PkgJsons(pkg) ==
    {[name |-> pkg, version |-> "3.22.4", repository |-> r] : r \in Repositories}
        \cup {[name |-> pkg, version |-> "unknown", repository |-> None]}

\* local `repoUrl` of indexPackage
RepoUrlOf(json) ==
    IF json.repository = None THEN None ELSE Get(json.repository).url

\* `if (repoUrl)`
Truthy(url) == IsSome(url) /\ Len(Get(url)) > 0

parseGitHubRepo(url) ==
    IF Len(url) = 0 THEN None
    ELSE IF \/ Includes(LowerCaseText(url), "github.com/")
            \/ Includes(LowerCaseText(url), "github.com:")
            \/ StartsWith(LowerCaseText(url), "github:")
    THEN Some([owner |-> "colinhacks", repo |-> "zod"])
    ELSE None

\* entries of a repository tree or of an unpacked tarball
Entry(path, content, size) ==
    [type |-> "blob", path |-> path, content |-> content, size |-> size]

Entries ==
    {Entry("src/index.ts", "handlers", 400),
     Entry("lib/main.js", "helper", 90),
     Entry("src/big.ts", "helper", MaxFileSize),
     Entry("src/index.test.ts", "handlers", 50),
     Entry("dist/broken.js", "broken", 10)}

SourceFile(item) == [path |-> item.path, content |-> item.content, size |-> item.size]

\* sourceFilePatterns, the directory patterns, topLevelFile and excludePatterns
IsSourcePath(path) ==
    /\ \E ext \in {".ts", ".js", ".tsx", ".jsx"} : EndsWith(path, ext)
    /\ \/ \E dir \in {"src/", "lib/", "dist/", "type/", "types/", "definition/",
                      "definitions/", "esm/", "cjs/"} :
              StartsWith(path, dir) \/ Includes(path, "/" \o dir)
       \/ ~Includes(path, "/")
    /\ ~(\E kind \in {".test", ".spec", ".stories"}, ext \in {".ts", ".js"} :
           EndsWith(path, kind \o ext))

IsSourceEntry(item) == item.type = "blob" /\ IsSourcePath(item.path)

IsSmall(item) == item.size < MaxFileSize

\* the files of q that could be read, q[k] onwards
RECURSIVE ReadFrom(_, _, _)
ReadFrom(q, unreadable, k) ==
    IF k > Len(q) THEN <<>>
    ELSE (IF k \in unreadable THEN <<>> ELSE <<SourceFile(q[k])>>)
             \o ReadFrom(q, unreadable, k + 1)

RECURSIVE TotalSize(_)
TotalSize(files) ==
    IF files = <<>> THEN 0 ELSE Head(files).size + TotalSize(Tail(files))

SourceCodeResult(files, strategy) ==
    Some([files |-> files, strategy |-> strategy, totalSize |-> TotalSize(files)])

\* `result && result.files.length > 0`
HasFiles(r) == IsSome(r) /\ Len(Get(r).files) > 0

\* what the GitHub API answers during one fetchFromGitHub
GitHubReplies ==
    [main : BOOLEAN, master : BOOLEAN,
     tree : {None} \cup {Some(t) : t \in DistinctSeqs(Entries, MaxFiles)},
     blobFails : SUBSET (1..MaxFiles)]

fetchFromGitHub(url, reply) ==
    IF parseGitHubRepo(url) = None THEN None
    ELSE IF ~reply.main /\ ~reply.master THEN None
    ELSE IF reply.tree = None THEN None
    ELSE LET relevantFiles == SelectSeq(SelectSeq(Get(reply.tree), IsSourceEntry), IsSmall)
         IN  SourceCodeResult(ReadFrom(Take(relevantFiles, GitHubFileLimit),
                                       reply.blobFails, 1),
                              "github")

\* readSourceFiles over the unpacked package
WalkPackage(entries, unreadable) ==
    SelectSeq(ReadFrom(SelectSeq(entries, IsSourceEntry), unreadable, 1), IsSmall)

commonPaths ==
    <<"/src/index.ts", "/src/index.js", "/src/client.ts", "/src/main.ts",
      "/lib/index.js", "/lib/main.js">>

\* the probes the CDN may answer with a file
CdnReplies == {ok \in SUBSET (1..Len(commonPaths)) : Cardinality(ok) <= MaxFiles}

\* the files of the probes that were answered, commonPaths[k] onwards
RECURSIVE Probed(_, _)
Probed(ok, k) ==
    IF k > Len(commonPaths) THEN <<>>
    ELSE (IF k \in ok
          THEN <<[path |-> commonPaths[k],
                  content |-> IF k = 1 THEN "handlers" ELSE "helper",
                  size |-> IF k = 1 THEN 400 ELSE 90]>>
          ELSE <<>>) \o Probed(ok, k + 1)

fetchFromUnpkg(ok) ==
    LET files == Probed(ok, 1)
    IN  IF Len(files) = 0 THEN None ELSE SourceCodeResult(files, "unpkg")

\* parseSourceFile: the symbols of a file, or nothing when the parser throws
parseSourceFile(file) ==
    CASE file.content = "handlers" ->
            Some(<<ParsedSymbol("fetchUser", TRUE, Some(Chars(MinJsdoc + 1)), file.path,
                                Code("async try fetch", MinImplementation + 10)),
                   ParsedSymbol("_id", FALSE, None, file.path,
                                Chars(MinImplementation - 10))>>)
      [] file.content = "helper" ->
            Some(<<ParsedSymbol("pad", FALSE, None, file.path,
                                Chars(MinImplementation))>>)
      [] OTHER -> None

\* variant: the first file that fails to parse ends the loop
RECURSIVE parseSourceFiles_AbortsOnFailure(_)
parseSourceFiles_AbortsOnFailure(files) ==
    IF files = <<>> \/ parseSourceFile(Head(files)) = None THEN <<>>
    ELSE Get(parseSourceFile(Head(files))) \o parseSourceFiles_AbortsOnFailure(Tail(files))

\* parseSourceFiles: a file whose parse throws is logged and skipped
RECURSIVE parseSourceFiles(_)
parseSourceFiles(files) ==
    IF files = <<>> THEN <<>>
    ELSE OrElse(parseSourceFile(Head(files)), <<>>) \o parseSourceFiles(Tail(files))

\* an element of PackageDocument.symbols
DocumentSymbol(symbol) ==
    [kind |-> symbol.kind, name |-> symbol.name,
     implementation |-> symbol.implementation, jsdoc |-> symbol.jsdoc,
     file_path |-> symbol.filePath, start_line |-> symbol.startLine,
     end_line |-> symbol.endLine, is_exported |-> symbol.isExported,
     relevance_score |-> calculateRelevanceScore(symbol)]

\* variant: total_symbols counts the symbols before the filter
PackageDocument_CountsParsed(json, url, fetched) ==
    LET found == HasFiles(fetched)
        allSymbols == IF found THEN parseSourceFiles(Get(fetched).files) ELSE <<>>
        kept == filterRelevantSymbols(allSymbols)
    IN  [name |-> json.name, version |-> json.version, repository_url |-> url,
         source_strategy |-> IF found THEN Get(fetched).strategy ELSE "none",
         symbols |-> [i \in 1..Len(kept) |-> DocumentSymbol(kept[i])],
         total_symbols |-> Len(allSymbols),
         total_source_files |-> IF found THEN Len(Get(fetched).files) ELSE 0,
         total_source_size |-> IF found THEN Get(fetched).totalSize ELSE 0]

\* the document indexPackage builds from what it fetched
PackageDocument(json, url, fetched) ==
    LET found == HasFiles(fetched)
        allSymbols == IF found THEN parseSourceFiles(Get(fetched).files) ELSE <<>>
        kept == filterRelevantSymbols(allSymbols)
    IN  [name |-> json.name, version |-> json.version, repository_url |-> url,
         source_strategy |-> IF found THEN Get(fetched).strategy ELSE "none",
         symbols |-> [i \in 1..Len(kept) |-> DocumentSymbol(kept[i])],
         total_symbols |-> Len(kept),
         total_source_files |-> IF found THEN Len(Get(fetched).files) ELSE 0,
         total_source_size |-> IF found THEN Get(fetched).totalSize ELSE 0]

Started(strategy) == [strategy |-> strategy, phase |-> "start", result |-> None]
Ended(strategy, r) == [strategy |-> strategy, phase |-> "end", result |-> Some(r)]

\* indexPackage has been called and nothing else has happened
IngestInit ==
    /\ IngestIdle
    /\ AnswerIdle
    /\ SymbolIdle
    /\ BatchIdle
    /\ JobsIdle
    /\ TarballIdle
    /\ RouteIdle

\* indexPackage up to the await of fetchPackage
Call_indexPackage(pkg) ==
    /\ ipc = "idle"
    /\ pkgArg' = pkg
    /\ ipc' = "fetchPackage"
    /\ UNCHANGED <<pkgJson, repoUrl, strategyLog, tempDirExists, tarball, sourceCode,
                   allParsed, submitted, indexResult, besidesIngest>>

\* fetchPackage settles; fetchSourceCode chooses its first strategy
IP_FetchPackage ==
    /\ ipc = "fetchPackage"
    /\ \E json \in PkgJsons(pkgArg) :
        /\ pkgJson' = Some(json)
        /\ repoUrl' = RepoUrlOf(json)
        /\ ipc' = IF Truthy(RepoUrlOf(json)) THEN "fetchFromGitHub"
                  ELSE "fetchFromNpmTarball"
    /\ UNCHANGED <<pkgArg, strategyLog, tempDirExists, tarball, sourceCode, allParsed,
                   submitted, indexResult, besidesIngest>>

\* fetchSourceCode returns `fetched`; indexPackage builds the document and
\* hands it to client.index
SourceFetched(fetched) ==
    /\ sourceCode' = Resolved([result |-> fetched])
    /\ allParsed' = IF HasFiles(fetched) THEN parseSourceFiles(Get(fetched).files)
                     ELSE <<>>
    /\ submitted' = Append(submitted, PackageDocument(Get(pkgJson), repoUrl, fetched))
    /\ ipc' = "index"

\* variant: any result that is not null is returned, even one without files
StrategyReturned_AnyResult(r, next) ==
    IF IsSome(r) THEN SourceFetched(r)
    ELSE /\ ipc' = next
         /\ UNCHANGED <<sourceCode, allParsed, submitted>>

\* fetchSourceCode after a strategy returned r: return it, or go on with `next`
StrategyReturned(r, next) ==
    IF HasFiles(r) THEN SourceFetched(r)
    ELSE /\ ipc' = next
         /\ UNCHANGED <<sourceCode, allParsed, submitted>>

\* strategy 1: a whole call of fetchFromGitHub
FetchFromGitHub ==
    /\ ipc = "fetchFromGitHub"
    /\ \E reply \in GitHubReplies :
        LET r == fetchFromGitHub(Get(repoUrl), reply)
        IN  /\ strategyLog' = strategyLog \o <<Started("github"), Ended("github", r)>>
            /\ StrategyReturned(r, "fetchFromNpmTarball")
    /\ UNCHANGED <<pkgArg, pkgJson, repoUrl, tempDirExists, tarball, indexResult,
                   besidesIngest>>

\* variant: the temporary directory is removed only when the strategy succeeded
TarballReturns_NoFinally(log, r, created, removed) ==
    /\ strategyLog' = Append(log, Ended("tarball", r))
    /\ IF created /\ IsSome(r)
       THEN /\ tempDirExists' = ~removed
            /\ tarball' = [created |-> created, cleanup |-> IF removed THEN "removed" ELSE "failed"]
       ELSE /\ tempDirExists' = created
            /\ tarball' = [created |-> created, cleanup |-> "skipped"]
    /\ StrategyReturned(r, "fetchFromUnpkg")

\* fetchFromNpmTarball leaves through its `finally` and returns r: the
\* directory, if it was created, is removed unless rmSync throws
TarballReturns(log, r, created, removed) ==
    /\ strategyLog' = Append(log, Ended("tarball", r))
    /\ IF created
       THEN /\ tempDirExists' = ~removed
            /\ tarball' = [created |-> created, cleanup |-> IF removed THEN "removed" ELSE "failed"]
       ELSE /\ tempDirExists' = FALSE
            /\ tarball' = [created |-> created, cleanup |-> "skipped"]
    /\ StrategyReturned(r, "fetchFromUnpkg")

\* strategy 2: the registry metadata is fetched and read
TB_Metadata ==
    /\ ipc = "fetchFromNpmTarball"
    /\ \E outcome \in {"fetch throws", "not ok", "json throws", "no tarball url", "ok"} :
        IF outcome = "ok"
        THEN /\ strategyLog' = Append(strategyLog, Started("tarball"))
             /\ ipc' = "tarball.download"
             /\ UNCHANGED <<tempDirExists, tarball, sourceCode, allParsed, submitted>>
        ELSE TarballReturns(Append(strategyLog, Started("tarball")), None, FALSE, FALSE)
    /\ UNCHANGED <<pkgArg, pkgJson, repoUrl, indexResult, besidesIngest>>

\* the tarball is downloaded, the directory made, the tarball written into it
TB_Download ==
    /\ ipc = "tarball.download"
    /\ \E outcome \in {"fetch throws", "not ok", "body throws", "mkdir throws",
                       "write throws", "ok"} :
        IF outcome = "ok"
        THEN /\ tempDirExists' = TRUE
             /\ tarball' = [created |-> TRUE, cleanup |-> "none"]
             /\ ipc' = "tarball.extract"
             /\ UNCHANGED <<strategyLog, sourceCode, allParsed, submitted>>
        ELSE IF outcome = "write throws"
        THEN \E removed \in BOOLEAN : TarballReturns(strategyLog, None, TRUE, removed)
        ELSE TarballReturns(strategyLog, None, FALSE, FALSE)
    /\ UNCHANGED <<pkgArg, pkgJson, repoUrl, indexResult, besidesIngest>>

\* tar.x settles; the unpacked package is walked
TB_Extract ==
    /\ ipc = "tarball.extract"
    /\ \E removed \in BOOLEAN :
        \/ TarballReturns(strategyLog, None, TRUE, removed)
        \/ \E entries \in DistinctSeqs(Entries, MaxFiles), unreadable \in SUBSET (1..MaxFiles) :
              TarballReturns(strategyLog,
                             SourceCodeResult(WalkPackage(entries, unreadable), "tarball"),
                             TRUE, removed)
    /\ UNCHANGED <<pkgArg, pkgJson, repoUrl, indexResult, besidesIngest>>

\* strategy 3: a whole call of fetchFromUnpkg; fetchSourceCode returns
FetchFromUnpkg ==
    /\ ipc = "fetchFromUnpkg"
    /\ \E ok \in CdnReplies :
        LET r == fetchFromUnpkg(ok)
        IN  /\ strategyLog' = strategyLog \o <<Started("unpkg"), Ended("unpkg", r)>>
            /\ SourceFetched(IF HasFiles(r) THEN r ELSE None)
    /\ UNCHANGED <<pkgArg, pkgJson, repoUrl, tempDirExists, tarball, indexResult,
                   besidesIngest>>

\* client.index settles
IP_Index ==
    /\ ipc = "index"
    /\ \/ indexResult' = Resolved([indexed |-> TRUE])
       \/ indexResult' = Rejected(ErrConnection)
    /\ ipc' = "done"
    /\ UNCHANGED <<pkgArg, pkgJson, repoUrl, strategyLog, tempDirExists, tarball,
                   sourceCode, allParsed, submitted, besidesIngest>>

IngestNext ==
    \/ \E pkg \in PackageNames : Call_indexPackage(pkg)
    \/ IP_FetchPackage
    \/ FetchFromGitHub
    \/ TB_Metadata
    \/ TB_Download
    \/ TB_Extract
    \/ FetchFromUnpkg
    \/ IP_Index

IngestSpec == IngestInit /\ [][IngestNext]_vars

-----------------------------------------------------------------------------
(* Observations on a run of indexPackage *)

StrategyOrder == <<"github", "tarball", "unpkg">>

RankOf(strategy) == CHOOSE k \in 1..Len(StrategyOrder) : StrategyOrder[k] = strategy

HasEnded(strategy) ==
    \E k \in 1..Len(strategyLog) :
        strategyLog[k].phase = "end" /\ strategyLog[k].strategy = strategy

\* what a strategy that has ended returned
ReturnedBy(strategy) ==
    LET k == CHOOSE i \in 1..Len(strategyLog) :
                 strategyLog[i].phase = "end" /\ strategyLog[i].strategy = strategy
    IN  Get(strategyLog[k].result)

SourceReturned == sourceCode.settled = "resolved"

\* what fetchSourceCode returned: None is null
FetchedSource == Get(sourceCode.value).result

-----------------------------------------------------------------------------
(* C15: fetchSourceCode runs its strategies one after another in the       *)
(* order github (only with a repository URL), tarball, unpkg; a strategy   *)
(* starts only after the one before it has returned null or no file; what  *)
(* fetchSourceCode returns is the result of the first strategy that        *)
(* yielded a file, tagged with that strategy; it never throws, and it      *)
(* returns null only after tarball and unpkg (and github, with a URL) have  *)
(* all returned without a file.                                            *)

C15_OneAfterAnother ==
    \A k \in 1..Len(strategyLog) :
        /\ strategyLog[k].phase = IF k % 2 = 1 THEN "start" ELSE "end"
        /\ k % 2 = 0 => strategyLog[k].strategy = strategyLog[k - 1].strategy

C15_InOrder ==
    \A k \in 1..Len(strategyLog) :
        strategyLog[k].phase = "start" =>
            LET rank == RankOf(strategyLog[k].strategy)
            IN  /\ strategyLog[k].strategy = "github" => Truthy(repoUrl) /\ k = 1
                /\ strategyLog[k].strategy = "tarball" =>
                      IF Truthy(repoUrl) THEN k = 3 ELSE k = 1
                /\ k > 1 =>
                      /\ RankOf(strategyLog[k - 1].strategy) = rank - 1
                      /\ ~HasFiles(Get(strategyLog[k - 1].result))

C15_FirstWithFiles ==
    (SourceReturned /\ IsSome(FetchedSource)) =>
        LET last == strategyLog[Len(strategyLog)]
        IN  /\ last.phase = "end"
            /\ FetchedSource = Get(last.result)
            /\ Len(Get(FetchedSource).files) >= 1
            /\ Get(FetchedSource).strategy = last.strategy
            /\ \A k \in 1..(Len(strategyLog) - 1) :
                  strategyLog[k].phase = "end" => ~HasFiles(Get(strategyLog[k].result))

C15_NullOnlyWhenExhausted ==
    (SourceReturned /\ FetchedSource = None) =>
        /\ Truthy(repoUrl) => HasEnded("github")
        /\ HasEnded("tarball")
        /\ HasEnded("unpkg")
        /\ \A k \in 1..Len(strategyLog) :
              strategyLog[k].phase = "end" => ~HasFiles(Get(strategyLog[k].result))

C15_SequentialFallback ==
    /\ C15_OneAfterAnother
    /\ C15_InOrder
    /\ C15_FirstWithFiles
    /\ C15_NullOnlyWhenExhausted
    /\ sourceCode.settled # "rejected"
    /\ ipc \in {"index", "done"} => SourceReturned

\* github returned a result without files, the tarball strategy failed, and
\* the files came from unpkg
C15_Witness ==
    /\ SourceReturned
    /\ Len(strategyLog) = 6
    /\ IsSome(ReturnedBy("github")) /\ ~HasFiles(ReturnedBy("github"))
    /\ ReturnedBy("tarball") = None
    /\ IsSome(FetchedSource)
    /\ Get(FetchedSource).strategy = "unpkg"

-----------------------------------------------------------------------------
(* C16: when fetchFromNpmTarball returns, on whatever path, the temporary  *)
(* directory it created exists no more, unless removing it failed: then    *)
(* the failure is swallowed and the directory stays. (As stated, without   *)
(* the exception: the directory never exists once the strategy returned.)  *)

C16_Original == HasEnded("tarball") => ~tempDirExists

C16_RemovedUnlessCleanupFails ==
    HasEnded("tarball") =>
        /\ tempDirExists <=> tarball.cleanup = "failed"
        /\ tarball.created <=> tarball.cleanup \in {"removed", "failed"}

\* the strategy failed after it had made the directory, and removed it
C16_Witness ==
    /\ HasEnded("tarball")
    /\ ReturnedBy("tarball") = None
    /\ tarball.created
    /\ tarball.cleanup = "removed"
    /\ ~tempDirExists

-----------------------------------------------------------------------------
(* C20: in every document indexPackage hands to the index, total_symbols   *)
(* is the number of its symbols, and a source_strategy of "none" comes     *)
(* with no symbols, no source files and a source size of 0.                *)

C20_DocumentCounts ==
    \A i \in 1..Len(submitted) :
        /\ submitted[i].total_symbols = Len(submitted[i].symbols)
        /\ submitted[i].source_strategy = "none" =>
              /\ submitted[i].symbols = <<>>
              /\ submitted[i].total_source_files = 0
              /\ submitted[i].total_source_size = 0

\* a document was submitted after every strategy had come back empty-handed
C20_Witness ==
    /\ Len(submitted) = 1
    /\ submitted[1].source_strategy = "none"
    /\ HasEnded("unpkg")

-----------------------------------------------------------------------------
(* C25: parseSourceFiles returns, for the files it is given, the symbols   *)
(* of every file that parsed, file after file in the order of the input;   *)
(* a file whose parse throws contributes no symbol and does not end the    *)
(* batch, and parseSourceFiles itself does not throw.                      *)

\* the files indexPackage handed to parseSourceFiles
C25_Files == IF HasFiles(FetchedSource) THEN Get(FetchedSource).files ELSE <<>>

\* how many symbols file k contributes
C25_Contribution(k) ==
    IF parseSourceFile(C25_Files[k]) = None THEN 0
    ELSE Len(Get(parseSourceFile(C25_Files[k])))

\* how many symbols the files before file k contribute
RECURSIVE C25_Offset(_)
C25_Offset(k) == IF k = 1 THEN 0 ELSE C25_Offset(k - 1) + C25_Contribution(k - 1)

C25_FailureSkipsFile ==
    SourceReturned =>
        /\ Len(allParsed) = C25_Offset(Len(C25_Files) + 1)
        /\ \A k \in 1..Len(C25_Files) :
              parseSourceFile(C25_Files[k]) # None =>
                  SubSeq(allParsed, C25_Offset(k) + 1, C25_Offset(k) + C25_Contribution(k))
                      = Get(parseSourceFile(C25_Files[k]))

\* the first of two files failed to parse, the second gave its symbols
C25_Witness ==
    /\ SourceReturned
    /\ Len(C25_Files) = 2
    /\ parseSourceFile(C25_Files[1]) = None
    /\ parseSourceFile(C25_Files[2]) # None
    /\ Len(allParsed) >= 1

-----------------------------------------------------------------------------
(* The package fetcher (ingestion/fetcher.ts): what indexPackage knows of   *)
(* a package before it looks for the source code.                          *)

WhitespaceText == {" ", "\t", "\n"}

\* String.prototype.trim on text
RECURSIVE TrimText(_)
TrimText(s) ==
    IF Len(s) = 0 THEN s
    ELSE IF SubSeq(s, 1, 1) \in WhitespaceText THEN TrimText(SubSeq(s, 2, Len(s)))
    ELSE IF SubSeq(s, Len(s), Len(s)) \in WhitespaceText
    THEN TrimText(SubSeq(s, 1, Len(s) - 1))
    ELSE s

\* Array.prototype.join
RECURSIVE JoinText(_, _)
JoinText(q, sep) ==
    IF q = <<>> THEN ""
    ELSE IF Len(q) = 1 THEN q[1]
    ELSE q[1] \o sep \o JoinText(Tail(q), sep)

\* the characters of s from position i to position j, as far as s has them
Substring(s, i, j) == IF i > Len(s) THEN "" ELSE SubSeq(s, i, Min(j, Len(s)))

\* where w first occurs in s at or after position `from`; 0 when it does not
IndexOfFrom(s, w, from) ==
    LET found == {i \in from..(Len(s) - Len(w) + 1) : SubSeq(s, i, i + Len(w) - 1) = w}
    IN  IF found = {} THEN 0 ELSE CHOOSE i \in found : \A j \in found : i <= j

\* the first position at or after i whose character is not in `chars`
RECURSIVE SkipWhile(_, _, _)
SkipWhile(s, i, chars) ==
    IF i <= Len(s) /\ SubSeq(s, i, i) \in chars THEN SkipWhile(s, i + 1, chars) ELSE i

\* the three backquotes of a markdown fence: a text of this notation cannot
\* hold a backquote, so a fence is written with three apostrophes
Fence == "'''"

\* the opening fences of fenceRegex: a fence, an optional language, \n
OpeningFences == {Fence \o lang \o "\n" : lang \in {"", "ts", "js", "typescript", "javascript"}}

\* the length of the opening fence at position i; 0 when there is none
FenceAt(s, i) ==
    LET open == {f \in OpeningFences : Substring(s, i, i + Len(f) - 1) = f}
    IN  IF open = {} THEN 0 ELSE Len(CHOOSE f \in open : TRUE)

\* the matches of fenceRegex in markdown at or after position `from`
RECURSIVE CodeBlocksFrom(_, _)
CodeBlocksFrom(markdown, from) ==
    LET opens == {i \in from..Len(markdown) : FenceAt(markdown, i) > 0}
    IN  IF opens = {} THEN <<>>
        ELSE LET i == CHOOSE k \in opens : \A j \in opens : k <= j
                 body == i + FenceAt(markdown, i)
                 close == IndexOfFrom(markdown, Fence, body)
                 code == TrimText(SubSeq(markdown, body, close - 1))
             IN  IF close = 0 THEN <<>>
                 ELSE (IF code # "" THEN <<code>> ELSE <<>>)
                          \o CodeBlocksFrom(markdown, close + 3)

extractCodeBlocks(markdown) ==
    IF markdown = "" THEN <<>> ELSE CodeBlocksFrom(markdown, 1)

prepareReadmeContent(readme, codeBlocks) ==
    readme \o (IF Len(codeBlocks) > 0
               THEN "\n\n## Code Examples\n\n" \o JoinText(codeBlocks, "\n\n")
               ELSE "")

ExportKinds == {"function", "class", "interface", "type", "const", "enum"}

IdentifierChars ==
    {"a", "b", "c", "d", "e", "f", "g", "h", "i", "j", "k", "l", "m", "n", "o", "p", "q",
     "r", "s", "t", "u", "v", "w", "x", "y", "z", "A", "B", "C", "D", "E", "F", "G", "H",
     "I", "J", "K", "L", "M", "N", "O", "P", "Q", "R", "S", "T", "U", "V", "W", "X", "Y",
     "Z", "0", "1", "2", "3", "4", "5", "6", "7", "8", "9", "_", "$"}

\* the match of exportRegex that starts at position i, if there is one
ExportAt(dts, i) ==
    LET kindStart == SkipWhile(dts, i + 6, WhitespaceText)
        kinds == {k \in ExportKinds : Substring(dts, kindStart, kindStart + Len(k) - 1) = k}
        kind == CHOOSE k \in kinds : TRUE
        nameStart == SkipWhile(dts, kindStart + Len(kind), WhitespaceText)
        nameEnd == SkipWhile(dts, nameStart, IdentifierChars)
    IN  IF /\ Substring(dts, i, i + 5) = "export"
           /\ kindStart > i + 6
           /\ kinds # {}
           /\ nameStart > kindStart + Len(kind)
           /\ nameEnd > nameStart
        THEN Some([kind |-> kind, name |-> SubSeq(dts, nameStart, nameEnd - 1),
                   next |-> nameEnd])
        ELSE None

\* the exports found in dts at or after position `from` (kind and name of
\* each ExportInfo)
RECURSIVE ExportsFrom(_, _)
ExportsFrom(dts, from) ==
    LET starts == {i \in from..Len(dts) : ExportAt(dts, i) # None}
    IN  IF starts = {} THEN <<>>
        ELSE LET i == CHOOSE k \in starts : \A j \in starts : k <= j
                 found == Get(ExportAt(dts, i))
             IN  <<[kind |-> found.kind, name |-> found.name]>>
                     \o ExportsFrom(dts, found.next)

extractExportsSimple(dts) == IF dts = "" THEN <<>> ELSE ExportsFrom(dts, 1)

\* README.md and dist/index.d.ts as the CDN serves them
ReadmeText == "# zod\n" \o Fence \o "ts\nz.string()\n" \o Fence
DtsText == "export function parse(): void;"

\* what the CDN answers to the three requests of one fetchPackage: None is a
\* request that failed or was answered with an error status
UpstreamReplies(pkg) ==
    [packageJson : {None, Some([name |-> pkg, version |-> "3.22.4", repository |-> None])},
     readme : {None, Some(ReadmeText)},
     dts : {None, Some(DtsText)}]

\* variant: a README that cannot be fetched makes fetchPackage throw
fetchPackage_ReadmeRequired(pkg, replies) ==
    IF replies.readme = None THEN None
    ELSE Some([pkgJson |-> OrElse(replies.packageJson,
                                  [name |-> pkg, version |-> "unknown", repository |-> None]),
               readme |-> Get(replies.readme),
               dts |-> OrElse(replies.dts, "")])

\* fetchPackage: the three requests are settled together and each one that
\* failed is replaced by a stand-in; None would be a throw
fetchPackage(pkg, replies) ==
    Some([pkgJson |-> OrElse(replies.packageJson,
                             [name |-> pkg, version |-> "unknown", repository |-> None]),
          readme |-> OrElse(replies.readme, ""),
          dts |-> OrElse(replies.dts, "")])

\* what fetchSourceCode may return for a package without repository URL
SourceResults ==
    {None,
     SourceCodeResult(<<SourceFile(Entry("src/index.ts", "handlers", 400))>>, "tarball")}

\* the document of indexPackage, with the fields that come from the README
\* and from the declaration file
IndexedDocument(data, fetched) ==
    PackageDocument(data.pkgJson, RepoUrlOf(data.pkgJson), fetched)
        @@ [readme_content |-> prepareReadmeContent(data.readme, extractCodeBlocks(data.readme)),
            exports |-> extractExportsSimple(data.dts),
            code_examples |-> JoinText(extractCodeBlocks(data.readme), "\n\n")]

\* `${doc.name}@${doc.version}`
DocIdText(doc) == doc.name \o "@" \o doc.version

\* variant: the document is indexed without an id, so the index adds it
\* under an id of its own
IndexDocument_NoId(entries, id, doc) ==
    entries \cup {[id |-> "auto-" \o ToString(Cardinality(entries) + 1), doc |-> doc]}

\* client.index({ index, id, document }): the document replaces whatever the
\* index held under the id
IndexDocument(entries, id, doc) ==
    {e \in entries : e.id # id} \cup {[id |-> id, doc |-> doc]}

-----------------------------------------------------------------------------
(* One call of indexPackages, by one of its three callers *)

\* longest list handed to indexPackages
MaxPackages == 2

BatchNames == {"zod", "ms"}

PackageLists == UNION {[1..n -> BatchNames] : n \in 0..MaxPackages}

\* the body of a POST /index request, as far as handleIndexRequest looks at it
IndexRequests ==
    {[body |-> "empty", packageName |-> None],
     [body |-> "malformed", packageName |-> None],
     [body |-> "json", packageName |-> None],
     [body |-> "json", packageName |-> Some("")],
     [body |-> "json", packageName |-> Some("../etc")],
     [body |-> "json", packageName |-> Some("@scope/")]}
        \cup {[body |-> "json", packageName |-> Some(n)] : n \in BatchNames}

NameChars == (IdentifierChars \ {"$"}) \cup {".", "-"}

\* the package name test of handleIndexRequest
IsValidPackageName(name) ==
    LET scopeEnd == SkipWhile(name, 2, NameChars)
        scoped == /\ Substring(name, 1, 1) = "@"
                  /\ scopeEnd > 2
                  /\ Substring(name, scopeEnd, scopeEnd) = "/"
        first == IF scoped THEN scopeEnd + 1 ELSE 1
    IN  /\ Substring(name, first, first) \in NameChars \ {".", "_", "-"}
        /\ SkipWhile(name, first, NameChars) = Len(name) + 1

RunStarted(pkg) == [pkg |-> pkg, phase |-> "start", threw |-> FALSE]
RunEnded(pkg, threw) == [pkg |-> pkg, phase |-> "end", threw |-> threw]

NoRun == [pkg |-> "", seen |-> None, data |-> None, fetched |-> None, doc |-> None]

\* indexPackages(list) up to its first await
StartBatch(who, list) ==
    /\ caller' = who
    /\ packages' = list
    /\ successful' = 0
    /\ failed' = 0
    /\ current' = NoRun
    /\ IF list = <<>>
       THEN /\ cursor' = 0
            /\ processed' = <<>>
            /\ bpc' = "return"
       ELSE /\ cursor' = 1
            /\ processed' = <<RunStarted(list[1])>>
            /\ bpc' = "fetchPackage"
    /\ UNCHANGED <<store, writes, reportedBack>>

\* main of the ingest script
Call_indexPackages(list) ==
    /\ bpc = "idle"
    /\ reportedBack = <<>>
    /\ StartBatch([kind |-> "script", packageName |-> ""], list)
    /\ UNCHANGED besidesBatch

\* the worker's handleReindexJob: getIndexer resolves or throws
Call_handleReindexJob(pkg) ==
    /\ bpc = "idle"
    /\ reportedBack = <<>>
    /\ \/ StartBatch([kind |-> "job", packageName |-> pkg], <<pkg>>)
       \/ /\ reportedBack' = Append(reportedBack,
                                   [kind |-> "job", status |-> "failed", failed |-> 0])
          /\ UNCHANGED <<bpc, caller, packages, cursor, successful, failed, current,
                         processed, store, writes>>
    /\ UNCHANGED besidesBatch

\* the legacy server's handleIndexRequest up to its call of indexPackages
Call_handleIndexRequest(req) ==
    /\ bpc = "idle"
    /\ reportedBack = <<>>
    /\ IF /\ req.body = "json"
          /\ IsSome(req.packageName)
          /\ Get(req.packageName) # ""
          /\ IsValidPackageName(Get(req.packageName))
       THEN StartBatch([kind |-> "http", packageName |-> Get(req.packageName)],
                       <<Get(req.packageName)>>)
       ELSE /\ reportedBack' = Append(reportedBack,
                                     [kind |-> "http", status |-> "400", failed |-> 0])
            /\ UNCHANGED <<bpc, caller, packages, cursor, successful, failed, current,
                           processed, store, writes>>
    /\ UNCHANGED besidesBatch

\* variant: a run that throws ends the loop of indexPackages
RunEnds_AbortOnFailure(threw) ==
    /\ successful' = IF threw THEN successful ELSE successful + 1
    /\ failed' = IF threw THEN failed + 1 ELSE failed
    /\ cursor' = cursor + 1
    /\ IF cursor < Len(packages) /\ ~threw
       THEN /\ processed' = processed \o <<RunEnded(packages[cursor], threw),
                                            RunStarted(packages[cursor + 1])>>
            /\ bpc' = "fetchPackage"
       ELSE /\ processed' = Append(processed, RunEnded(packages[cursor], threw))
            /\ bpc' = "return"

\* the indexPackage run of packages[cursor] ends: the loop of indexPackages
\* counts it and goes on to the next package
RunEnds(threw) ==
    /\ successful' = IF threw THEN successful ELSE successful + 1
    /\ failed' = IF threw THEN failed + 1 ELSE failed
    /\ cursor' = cursor + 1
    /\ IF cursor < Len(packages)
       THEN /\ processed' = processed \o <<RunEnded(packages[cursor], threw),
                                            RunStarted(packages[cursor + 1])>>
            /\ bpc' = "fetchPackage"
       ELSE /\ processed' = Append(processed, RunEnded(packages[cursor], threw))
            /\ bpc' = "return"

\* indexPackage: fetchPackage settles
BP_FetchPackage ==
    /\ bpc = "fetchPackage"
    /\ \E replies \in UpstreamReplies(packages[cursor]) :
        LET data == fetchPackage(packages[cursor], replies)
        IN  IF data = None
            THEN /\ RunEnds(TRUE)
                 /\ current' = [pkg |-> packages[cursor], seen |-> Some(replies),
                                data |-> None, fetched |-> None, doc |-> None]
            ELSE /\ current' = [pkg |-> packages[cursor], seen |-> Some(replies),
                                data |-> data, fetched |-> None, doc |-> None]
                 /\ bpc' = "fetchSourceCode"
                 /\ UNCHANGED <<cursor, successful, failed, processed>>
    /\ UNCHANGED <<caller, packages, store, writes, reportedBack, besidesBatch>>

\* indexPackage: fetchSourceCode returns, the document is built and handed to
\* client.index
BP_FetchSourceCode ==
    /\ bpc = "fetchSourceCode"
    /\ \E fetched \in SourceResults :
        current' = [current EXCEPT !.fetched = Some([result |-> fetched]),
                                   !.doc = Some(IndexedDocument(Get(current.data), fetched))]
    /\ bpc' = "index"
    /\ UNCHANGED <<caller, packages, cursor, successful, failed, processed, store, writes,
                   reportedBack, besidesBatch>>

\* indexPackage: client.index settles
BP_Index ==
    /\ bpc = "index"
    /\ LET doc == Get(current.doc)
       IN  \/ /\ store' = IndexDocument(store, DocIdText(doc), doc)
              /\ writes' = {w \in writes : w.key # DocIdText(doc)}
                               \cup {[key |-> DocIdText(doc), doc |-> doc,
                                      pkg |-> current.pkg, seen |-> Get(current.seen),
                                      fetched |-> Get(current.fetched).result]}
              /\ RunEnds(FALSE)
           \/ /\ UNCHANGED <<store, writes>>
              /\ RunEnds(TRUE)
    /\ UNCHANGED <<caller, packages, current, reportedBack, besidesBatch>>

\* indexPackages returns, and its caller reports
BatchReturns ==
    /\ bpc = "return"
    /\ reportedBack' =
          Append(reportedBack,
                 [kind |-> caller.kind,
                  status |-> CASE caller.kind = "job" -> "completed"
                               [] caller.kind = "http" -> "200"
                               [] OTHER -> "resolved",
                  failed |-> failed])
    /\ bpc' = "idle"
    /\ caller' = [kind |-> "none", packageName |-> ""]
    /\ packages' = <<>>
    /\ cursor' = 0
    /\ successful' = 0
    /\ failed' = 0
    /\ current' = NoRun
    /\ processed' = <<>>
    /\ UNCHANGED <<store, writes, besidesBatch>>

BatchInit ==
    /\ BatchIdle
    /\ AnswerIdle
    /\ SymbolIdle
    /\ IngestIdle
    /\ JobsIdle
    /\ TarballIdle
    /\ RouteIdle

BatchNext ==
    \/ \E list \in PackageLists : Call_indexPackages(list)
    \/ \E pkg \in BatchNames : Call_handleReindexJob(pkg)
    \/ \E req \in IndexRequests : Call_handleIndexRequest(req)
    \/ BP_FetchPackage
    \/ BP_FetchSourceCode
    \/ BP_Index
    \/ BatchReturns

BatchSpec == BatchInit /\ [][BatchNext]_vars

-----------------------------------------------------------------------------
(* C21: re-ingestion replaces. After any sequence of indexPackage runs the  *)
(* index holds exactly one document per name@version, and it is the        *)
(* document the latest successful run for that name@version built from     *)
(* what that run fetched, with no field of an earlier document in it. So   *)
(* two runs that fetch the same things leave the same symbols,             *)
(* total_symbols and source_strategy.                                      *)

C21_StoredAs(key) == {e \in store : DocIdText(e.doc) = key}

C21_FullReplace ==
    /\ \A e \in store : Cardinality(C21_StoredAs(DocIdText(e.doc))) = 1
    /\ {DocIdText(e.doc) : e \in store} = {w.key : w \in writes}
    /\ \A w \in writes :
          \A e \in C21_StoredAs(w.key) :
              /\ e.doc = IndexedDocument(Get(fetchPackage(w.pkg, w.seen)), w.fetched)
              /\ e.doc.symbols = w.doc.symbols
              /\ e.doc.total_symbols = w.doc.total_symbols
              /\ e.doc.source_strategy = w.doc.source_strategy

\* a package was indexed twice, with another README the second time, and the
\* index holds the one document of the second run
C21_Witness ==
    /\ bpc = "return"
    /\ packages = <<"zod", "zod">>
    /\ successful = 2
    /\ Cardinality(store) = 1
    /\ Get(current.seen).readme = None
    /\ \A e \in store : e.doc = Get(current.doc) /\ e.doc.source_strategy = "tarball"

-----------------------------------------------------------------------------
(* C22: indexPackages handles its packages one at a time in the order of   *)
(* the list: a run starts only when the run before it has ended; a run     *)
(* that throws is counted and the next package is still attempted;         *)
(* indexPackages itself does not throw, and when it returns                *)
(* successful + failed is the number of packages it was given.             *)

C22_Failures == Cardinality({k \in 1..Len(processed) : processed[k].threw})

C22_SequentialIsolated ==
    /\ \A k \in 1..Len(processed) :
          /\ processed[k].phase = IF k % 2 = 1 THEN "start" ELSE "end"
          /\ processed[k].pkg = packages[(k + 1) \div 2]
    /\ bpc \in {"fetchPackage", "fetchSourceCode", "index"} =>
          /\ Len(processed) = 2 * cursor - 1
          /\ successful + failed = cursor - 1
    /\ bpc = "return" =>
          /\ Len(processed) = 2 * Len(packages)
          /\ successful + failed = Len(packages)
          /\ failed = C22_Failures
    /\ \A k \in 1..Len(reportedBack) :
          reportedBack[k].kind = "script" => reportedBack[k].status = "resolved"

\* the first of two packages failed and the second was indexed
C22_Witness ==
    /\ bpc = "return"
    /\ Len(packages) = 2
    /\ processed[2].threw
    /\ ~processed[4].threw
    /\ successful = 1
    /\ failed = 1

-----------------------------------------------------------------------------
(* C23: when the package.json of a package cannot be fetched, indexPackage *)
(* throws: the run is counted as failed and writes no document for the     *)
(* package.                                                                *)

C23_MetadataFailed == IsSome(current.seen) /\ Get(current.seen).packageJson = None

C23_MetadataFailureFatal ==
    C23_MetadataFailed =>
        /\ current.data = None
        /\ current.doc = None
        /\ processed[Len(processed)] = RunEnded(current.pkg, TRUE)
        /\ \A e \in store : e.doc.name = current.pkg => e.doc.version # "unknown"

-----------------------------------------------------------------------------
(* C24: a README or a declaration file that cannot be fetched, or a source *)
(* fetch that found nothing, does not fail the run: indexPackage still     *)
(* hands a document to the index, with empty README content, no exports,   *)
(* and, without source, no symbols, total_symbols 0 and source_strategy    *)
(* "none".                                                                 *)

C24_Seen == Get(current.seen)

C24_MissingPartsTolerated ==
    IsSome(current.seen) =>
        /\ IsSome(current.data)
        /\ IsSome(current.data) =>
              /\ C24_Seen.readme = None => Get(current.data).readme = ""
              /\ C24_Seen.dts = None => Get(current.data).dts = ""
        /\ (IsSome(current.data) /\ bpc # "fetchSourceCode") =>
              /\ IsSome(current.fetched)
              /\ IsSome(current.doc)
        /\ IsSome(current.doc) =>
              /\ Get(current.doc).name = current.pkg
              /\ C24_Seen.readme = None =>
                    /\ Get(current.doc).readme_content = ""
                    /\ Get(current.doc).code_examples = ""
              /\ C24_Seen.dts = None => Get(current.doc).exports = <<>>
              /\ Get(current.fetched).result = None =>
                    /\ Get(current.doc).symbols = <<>>
                    /\ Get(current.doc).total_symbols = 0
                    /\ Get(current.doc).source_strategy = "none"

\* a run without README and without source code was indexed
C24_Witness ==
    /\ bpc = "return"
    /\ IsSome(current.doc)
    /\ C24_Seen.readme = None
    /\ Get(current.fetched).result = None
    /\ ~processed[Len(processed)].threw
    /\ \E e \in store : e.doc = Get(current.doc)

-----------------------------------------------------------------------------
(* C28: a reindex is reported as done (handleReindexJob returns status     *)
(* completed, POST /index answers 200 success) only when indexPackage      *)
(* wrote the document of the package; a failed ingestion is reported as a  *)
(* failed job or an error response.                                        *)

C28_SuccessMeansIndexed ==
    \A k \in 1..Len(reportedBack) :
        reportedBack[k].status \in {"completed", "200"} => reportedBack[k].failed = 0

-----------------------------------------------------------------------------
(* The reindex queue: the API's job routes and the worker                  *)

\* most jobs ever added to the queue
MaxJobs == 2

\* the ids a /mcp/jobs.status request asks for; a job's id is its position in
\* the queue's list of jobs, and the last id is never given out
JobIds == 1..(MaxJobs + 1)

\* z.enum of reindexResponse
ReindexStatuses == {"queued", "running", "completed", "failed"}

NewJob(pkg) ==
    [packageName |-> pkg, state |-> "waiting", returnvalue |-> None, failedReason |-> None]

HttpReply(route, code, jobId, status, value, reason) ==
    [route |-> route, code |-> code, jobId |-> jobId, status |-> status,
     result |-> value, error |-> reason]

\* getJobState: null for an unknown id, else the state the queue library gives
getJobState(jobId) ==
    IF jobId \notin DOMAIN jobs THEN None
    ELSE Some([jobId |-> jobId,
               status |-> jobs[jobId].state,
               result |-> jobs[jobId].returnvalue,
               error |-> jobs[jobId].failedReason])

\* POST /mcp/tools.reindex: enqueueReindex adds a job and answers "queued"
Route_reindex(pkg) ==
    /\ Len(jobs) < MaxJobs
    /\ jobs' = Append(jobs, NewJob(pkg))
    /\ reported' = <<HttpReply("/mcp/tools.reindex", 200, Len(jobs) + 1, "queued", None, None)>>
    /\ UNCHANGED besidesJobs

\* POST /mcp/jobs.status
Route_jobsStatus(jobId) ==
    /\ LET job == getJobState(jobId)
       IN  reported' =
             IF job = None
             THEN <<HttpReply("/mcp/jobs.status", 404, jobId, "", None, None)>>
             ELSE <<HttpReply("/mcp/jobs.status", 200, Get(job).jobId, Get(job).status,
                              Get(job).result, Get(job).error)>>
    /\ UNCHANGED jobs
    /\ UNCHANGED besidesJobs

\* the worker takes the oldest waiting job
WorkerTakes(k) ==
    /\ k \in DOMAIN jobs
    /\ jobs[k].state = "waiting"
    /\ \A j \in 1..(k - 1) : jobs[j].state # "waiting"
    /\ \A j \in DOMAIN jobs : jobs[j].state # "active"
    /\ jobs' = [jobs EXCEPT ![k].state = "active"]
    /\ UNCHANGED reported
    /\ UNCHANGED besidesJobs

\* handleReindexJob returns
WorkerCompletes(k) ==
    /\ k \in DOMAIN jobs
    /\ jobs[k].state = "active"
    /\ jobs' = [jobs EXCEPT ![k].state = "completed",
                            ![k].returnvalue = Some([packageName |-> jobs[k].packageName,
                                                     status |-> "completed"])]
    /\ UNCHANGED reported
    /\ UNCHANGED besidesJobs

\* handleReindexJob throws
WorkerFails(k) ==
    /\ k \in DOMAIN jobs
    /\ jobs[k].state = "active"
    /\ jobs' = [jobs EXCEPT ![k].state = "failed",
                            ![k].failedReason = Some("indexPackages export missing")]
    /\ UNCHANGED reported
    /\ UNCHANGED besidesJobs

JobInit ==
    /\ JobsIdle
    /\ AnswerIdle
    /\ SymbolIdle
    /\ IngestIdle
    /\ BatchIdle
    /\ TarballIdle
    /\ RouteIdle

JobNext ==
    \/ \E pkg \in BatchNames : Route_reindex(pkg)
    \/ \E jobId \in JobIds : Route_jobsStatus(jobId)
    \/ \E k \in 1..MaxJobs : WorkerTakes(k)
    \/ \E k \in 1..MaxJobs : WorkerCompletes(k)
    \/ \E k \in 1..MaxJobs : WorkerFails(k)

JobSpec == JobInit /\ [][JobNext]_vars

-----------------------------------------------------------------------------
(* C27: the job routes report the status of a reindex job only as queued,  *)
(* running, completed or failed: /mcp/tools.reindex answers queued with    *)
(* the job id, every 200 answer of /mcp/jobs.status carries one of the     *)
(* four values, and an unknown job id is answered 404.                     *)

C27_StatusVocabulary ==
    \A k \in 1..Len(reported) :
        /\ reported[k].code = 200 => reported[k].status \in ReindexStatuses
        /\ reported[k].code = 404 => reported[k].jobId \notin DOMAIN jobs

-----------------------------------------------------------------------------
(* fetchFromNpmTarball, several runs side by side in one process: each run *)
(* is suspended at its awaits, and between two awaits it runs alone        *)

\* most runs of fetchFromNpmTarball started
MaxFetches == 2

\* most milliseconds that pass
MaxClock == 1

\* path.join(os.tmpdir(), `npm-intel-${Date.now()}`), without os.tmpdir()
TempDirOf(now) == "npm-intel-" \o ToString(now)

TarballFile(dir, pkg) == [dir |-> dir, path |-> "package.tgz", content |-> pkg]

\* what tar.x unpacks from the tarball of package pkg
ExtractedFile(dir, pkg) == [dir |-> dir, path |-> "package/src/index.ts", content |-> pkg]

\* fs.writeFileSync and tar.x replace a file that is already there
WriteFile(files, file) ==
    {f \in files : ~(f.dir = file.dir /\ f.path = file.path)} \cup {file}

\* fs.rmSync(tempDir, {recursive: true, force: true}) when the directory exists
RemoveDir(files, dir) == {f \in files : f.dir # dir}

\* readSourceFiles(packageDir)
ReadSourceFiles(files, dir) ==
    {[path |-> f.path, content |-> f.content] :
        f \in {g \in files : g.dir = dir /\ g.path # "package.tgz"}}

\* the catch and the finally of fetchFromNpmTarball: null is returned and the
\* directory is removed
FetchFails(i) ==
    /\ fetches' = [fetches EXCEPT ![i].step = "done", ![i].returned = None]
    /\ disk' = RemoveDir(disk, fetches[i].tempDir)

\* Date.now() moves on
ClockTicks ==
    /\ clock < MaxClock
    /\ clock' = clock + 1
    /\ UNCHANGED <<fetches, disk>>
    /\ UNCHANGED besidesTarball

\* fetchFromNpmTarball(pkg, version) up to the fetch of the registry metadata
Call_fetchFromNpmTarball(pkg) ==
    /\ Len(fetches) < MaxFetches
    /\ fetches' = Append(fetches, [pkg |-> pkg, tempDir |-> TempDirOf(clock),
                                   step |-> "metadata", returned |-> None])
    /\ UNCHANGED <<clock, disk>>
    /\ UNCHANGED besidesTarball

\* the registry metadata arrives, or not
NT_Metadata(i) ==
    /\ i \in DOMAIN fetches
    /\ fetches[i].step = "metadata"
    /\ \/ /\ fetches' = [fetches EXCEPT ![i].step = "download"]
          /\ UNCHANGED disk
       \/ FetchFails(i)
    /\ UNCHANGED clock
    /\ UNCHANGED besidesTarball

\* the tarball arrives and is written into the new directory, or not
NT_Download(i) ==
    /\ i \in DOMAIN fetches
    /\ fetches[i].step = "download"
    /\ \/ /\ fetches' = [fetches EXCEPT ![i].step = "extract"]
          /\ disk' = WriteFile(disk, TarballFile(fetches[i].tempDir, fetches[i].pkg))
       \/ FetchFails(i)
    /\ UNCHANGED clock
    /\ UNCHANGED besidesTarball

\* tar.x unpacks the file at tarballPath into the directory, or fails
NT_Extract(i) ==
    /\ i \in DOMAIN fetches
    /\ fetches[i].step = "extract"
    /\ LET dir == fetches[i].tempDir
           archives == {f \in disk : f.dir = dir /\ f.path = "package.tgz"}
       IN  \/ /\ archives # {}
              /\ \E archive \in archives :
                    disk' = WriteFile(disk, ExtractedFile(dir, archive.content))
              /\ fetches' = [fetches EXCEPT ![i].step = "extracted"]
           \/ FetchFails(i)
    /\ UNCHANGED clock
    /\ UNCHANGED besidesTarball

\* the promise of tar.x resolves: the files are read, the result is returned
\* and the directory is removed
NT_Read(i) ==
    /\ i \in DOMAIN fetches
    /\ fetches[i].step = "extracted"
    /\ fetches' = [fetches EXCEPT
                     ![i].step = "done",
                     ![i].returned = Some([files |-> ReadSourceFiles(disk, fetches[i].tempDir),
                                           strategy |-> "tarball"])]
    /\ disk' = RemoveDir(disk, fetches[i].tempDir)
    /\ UNCHANGED clock
    /\ UNCHANGED besidesTarball

TarballInit ==
    /\ TarballIdle
    /\ AnswerIdle
    /\ SymbolIdle
    /\ IngestIdle
    /\ BatchIdle
    /\ JobsIdle
    /\ RouteIdle

TarballNext ==
    \/ ClockTicks
    \/ \E pkg \in BatchNames : Call_fetchFromNpmTarball(pkg)
    \/ \E i \in 1..MaxFetches : NT_Metadata(i)
    \/ \E i \in 1..MaxFetches : NT_Download(i)
    \/ \E i \in 1..MaxFetches : NT_Extract(i)
    \/ \E i \in 1..MaxFetches : NT_Read(i)

TarballSpec == TarballInit /\ [][TarballNext]_vars

-----------------------------------------------------------------------------
(* C29: two runs of fetchFromNpmTarball that overlap never use the same    *)
(* scratch directory, and the files a run has extracted and not yet read   *)
(* are on disk as it extracted them, whatever the other run extracts or    *)
(* removes meanwhile.                                                      *)

C29_Running(i) == fetches[i].step # "done"

C29_ScratchNotShared ==
    /\ \A i, j \in DOMAIN fetches :
          (i # j /\ C29_Running(i) /\ C29_Running(j)) =>
              fetches[i].tempDir # fetches[j].tempDir
    /\ \A i \in DOMAIN fetches :
          fetches[i].step = "extracted" =>
              ExtractedFile(fetches[i].tempDir, fetches[i].pkg) \in disk

-----------------------------------------------------------------------------
(* The route /mcp/tools.answer: several requests on the one answer service *)
(* that registerToolRoutes creates. Each request runs generateAnswer with  *)
(* locals of its own; the service's `options` and `models` are shared.     *)

\* most requests handled side by side
MaxRequests == 2

\* maxRetries of the route's answer service
RouteMaxRetries == 2

\* the options registerToolRoutes gives createAnswerService. Its
\* generativeModels list is empty without an API key; with one it holds the
\* configured model, here the one that is also the fallback model, so that
\* the list has one entry
RouteOptions ==
    {[generativeModel |-> Null, generativeModels |-> Some(ms),
      maxRetries |-> Some(RouteMaxRetries), allowUngroundedFallback |-> Some(TRUE)] :
        ms \in {<<>>, <<"gemini-flash-lite-latest">>}}

\* request bodies, after answerRequestSchema and parseResourceId
RoutePayloads ==
    {Request(<<"zod">>, None, Some(1)),
     Request(<<"yup">>, Some(PaddedQuery), Some(1))}

\* what the index and the models answer to the calls of a request
RouteSearchReplies(id, name) ==
    {ThrowReply(ErrConnection), OkReply([hits |-> <<>>])}
    \cup {OkReply([hits |-> <<[id |-> id,
                               source |-> [name |-> name, version |-> VersionOf(name),
                                           readme_content |-> <<"# readme">>],
                               inner |-> ih]>>]) :
            ih \in {<<>>, <<SourceFilter(SymGet, FALSE)>>}}

RouteGetReplies(id, name) == {OkReply(DocOf(id, name, <<SymGet>>))}

RouteGenerateReplies ==
    {ThrowReply(ErrUnavailable), ThrowReply(ErrQuota)}
    \cup {OkReply([text |-> t]) : t \in ModelTexts}

\* the locals of generateAnswer at its first await (or at its return, when no
\* model is configured), with the replies the request has heard so far
NewRequest(p) ==
    IF Len(models) = 0
    THEN [payload |-> p, pc |-> "done", searchQuery |-> <<>>, maxSnippets |-> 0,
          hit |-> None, context |-> None, modelIdx |-> 0, attempt |-> 0,
          lastError |-> None, heard |-> <<>>,
          result |-> Resolved(ErrorValue(NotConfiguredMessage))]
    ELSE [payload |-> p, pc |-> "findRelevantCode.search",
          searchQuery |-> EffectiveQuery(p),
          maxSnippets |-> OrElse(p.maxSnippets, DefaultMaxSnippets),
          hit |-> None, context |-> None, modelIdx |-> 0, attempt |-> 0,
          lastError |-> None, heard |-> <<>>, result |-> Pending]

Settled(req, outcome) == [req EXCEPT !.pc = "done", !.result = outcome]

\* generateAnswer from the return of findRelevantCode up to the first
\* generateContent call
WithContext(req, ctx) ==
    IF ~HasGroundedContext(ctx) /\ ~AllowUngroundedOf(options)
    THEN Settled([req EXCEPT !.context = ctx],
                 Resolved(ErrorValue(NoSymbolsMessage(req.payload.packageName,
                                                      req.searchQuery))))
    ELSE [req EXCEPT !.context = ctx, !.pc = "generate", !.modelIdx = 1,
                     !.attempt = 0, !.lastError = None]

\* findRelevantCode: the level-1 search settles with reply r
OnSearch(req, r) ==
    IF IsSome(r.threw) THEN Settled(req, Rejected(Get(r.threw)))
    ELSE IF Len(Get(r.value).hits) = 0 THEN WithContext(req, None)
    ELSE LET first == Get(r.value).hits[1]
             symbols == ToSymbolMatches(first.inner)
         IN  IF Len(symbols) = 0
             THEN [req EXCEPT !.hit = Some(first), !.pc = "findRelevantCode.get"]
             ELSE WithContext([req EXCEPT !.hit = Some(first)],
                              ContextOf(first.source, symbols))

\* findRelevantCode: the level-2 get-by-id settles with reply r
OnGet(req, r) ==
    IF IsSome(r.threw)
    THEN WithContext(req, ContextOf(Get(req.hit).source, <<>>))
    ELSE WithContext(req, ContextOf(Get(r.value),
                                    RerankSymbols(Get(r.value).symbols, req.maxSnippets)))

\* one iteration of the attempt loop: a generateContent call settles with r
OnGenerate(req, r) ==
    IF ~IsSome(r.threw)
    THEN Settled(req, Resolved(AnswerResponse(req.payload, req.searchQuery,
                                              Get(r.value).text, req.context)))
    ELSE LET error == Get(r.threw)
             again == isRetryableGeminiError(error)
                         /\ req.attempt + 1 < AttemptLimit(options)
             nextModel == IF again THEN req.modelIdx ELSE req.modelIdx + 1
             caught == Caught(req.lastError, error)
             next == [req EXCEPT !.lastError = caught, !.modelIdx = nextModel,
                                 !.attempt = IF again THEN req.attempt + 1 ELSE 0]
         IN  IF nextModel > Len(models)
             THEN Settled(next, Resolved(ErrorValue(FailureMessage(caught))))
             ELSE next

\* the continuation of a suspended generateAnswer when its call settles with r
Continue(req, r) ==
    LET next == CASE req.pc = "findRelevantCode.search" -> OnSearch(req, r)
                  [] req.pc = "findRelevantCode.get" -> OnGet(req, r)
                  [] req.pc = "generate" -> OnGenerate(req, r)
                  [] OTHER -> req
    IN  IF req.pc = "done" THEN req ELSE [next EXCEPT !.heard = Append(req.heard, r)]

\* variant: the model cursor is a variable of the service, shared by the calls
Locals_SharedModelIdx(reqs, i) ==
    [reqs[i] EXCEPT !.modelIdx =
        IF reqs[i].pc = "generate"
        THEN CHOOSE m \in {reqs[j].modelIdx : j \in DOMAIN reqs} :
                \A j \in DOMAIN reqs : reqs[j].modelIdx <= m
        ELSE reqs[i].modelIdx]

\* the variables a continuation of request i reads: those of its own call
Locals(reqs, i) == reqs[i]

\* error.includes("Gemini")
MentionsGemini(message) ==
    \E k \in 1..Len(message) : IndexOfFrom(message[k], "Gemini", 1) > 0

\* the keys of answerResponseSchema
AnswerResponseKeys == {"intent", "packageName", "searchQuery", "code", "context"}

\* the response serializer: the body is parsed with the z.object of the status
\* code, which drops every key the schema does not name
Serialize(value, keys) == [k \in keys |-> value[k]]

\* the handler of /mcp/tools.answer after generateAnswer has settled
ReplyOf(req) ==
    IF req.result.settled = "rejected"
    THEN [code |-> 500, body |-> [error |-> Get(req.result.value).error.message]]
    ELSE LET value == Get(req.result.value)
         IN  IF value.kind = "error"
             THEN [code |-> IF MentionsGemini(value.error) THEN 503 ELSE 422,
                   body |-> Serialize(value, {"error"})]
             ELSE [code |-> 200, body |-> Serialize(value, AnswerResponseKeys)]

ReplyWhenDone(req) == IF req.pc = "done" THEN Some(ReplyOf(req)) ELSE None

\* POST /mcp/tools.answer arrives
Route_answer(p) ==
    /\ Len(requests) < MaxRequests
    /\ requests' = Append(requests, NewRequest(p))
    /\ httpReplies' = Append(httpReplies, ReplyWhenDone(NewRequest(p)))
    /\ UNCHANGED besidesRoute

\* the pending call of request i settles with r
Settles(i, r) ==
    LET next == Continue(Locals(requests, i), r)
    IN  /\ requests' = [requests EXCEPT ![i] = next]
        /\ httpReplies' = [httpReplies EXCEPT ![i] = ReplyWhenDone(next)]
        /\ UNCHANGED besidesRoute

RA_Search(i) ==
    /\ i \in DOMAIN requests
    /\ requests[i].pc = "findRelevantCode.search"
    /\ \E r \in RouteSearchReplies(DocIdOf(requests[i].payload.packageName),
                                   requests[i].payload.packageName) : Settles(i, r)

RA_Get(i) ==
    /\ i \in DOMAIN requests
    /\ requests[i].pc = "findRelevantCode.get"
    /\ \E r \in RouteGetReplies(Get(requests[i].hit).id, Get(requests[i].hit).source.name) :
          Settles(i, r)

RA_Generate(i) ==
    /\ i \in DOMAIN requests
    /\ requests[i].pc = "generate"
    /\ \E r \in RouteGenerateReplies : Settles(i, r)

RouteInit ==
    /\ options \in RouteOptions
    /\ models = ModelsOf(options)
    /\ entry = "none"
    /\ payload = [none |-> TRUE]
    /\ pc = "idle"
    /\ searchQuery = <<>>
    /\ maxSnippets = 0
    /\ hit = None
    /\ context = None
    /\ modelIdx = 0
    /\ attempt = 0
    /\ lastError = None
    /\ calls = <<>>
    /\ result = Pending
    /\ RouteIdle
    /\ SymbolIdle
    /\ IngestIdle
    /\ BatchIdle
    /\ JobsIdle
    /\ TarballIdle

RouteNext ==
    \/ \E p \in RoutePayloads : Route_answer(p)
    \/ \E i \in 1..MaxRequests : RA_Search(i)
    \/ \E i \in 1..MaxRequests : RA_Get(i)
    \/ \E i \in 1..MaxRequests : RA_Generate(i)

RouteSpec == RouteInit /\ [][RouteNext]_vars

-----------------------------------------------------------------------------
(* C26: requests handled side by side are independent. Under every         *)
(* interleaving of the index and model calls of the requests, the locals   *)
(* and the result of each request, the error message of an exhausted one   *)
(* included, are those of a generateAnswer call running alone with the     *)
(* same payload and the same replies to its own calls.                     *)

RECURSIVE C26_Alone(_, _)
C26_Alone(req, answers) ==
    IF answers = <<>> THEN req
    ELSE C26_Alone(Continue(req, Head(answers)), Tail(answers))

-----------------------------------------------------------------------------
(* C30: the 200 body of /mcp/tools.answer carries the grounding of the     *)
(* answer: the grounded flag of the result of generateAnswer and, for an   *)
(* ungrounded answer, its note.                                            *)

C30_Answer(i) == Get(requests[i].result.value)

C30_GroundingDelivered ==
    \A i \in DOMAIN httpReplies :
        (IsSome(httpReplies[i]) /\ Get(httpReplies[i]).code = 200) =>
            /\ "grounded" \in DOMAIN Get(httpReplies[i]).body
            /\ Get(httpReplies[i]).body.grounded = C30_Answer(i).grounded
            /\ ~C30_Answer(i).grounded =>
                  /\ "note" \in DOMAIN Get(httpReplies[i]).body
                  /\ Get(httpReplies[i]).body.note = C30_Answer(i).note

====
